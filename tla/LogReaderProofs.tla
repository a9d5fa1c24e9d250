--------------------------- MODULE LogReaderProofs ---------------------------
(***************************************************************************)
(* The log reader, proved for any logs, chunks and limits.                 *)
(*                                                                         *)
(* The proof goes up the calls of read: what find_start, by_body_length,   *)
(* walk and copy_message can come to for any bytes (a StartResult, an      *)
(* EndOK, or a WaitOK, which only few bytes allow), then read itself, then *)
(* the invariant IInv, which ties the reader's buffer to the log and to    *)
(* the records returned, and StartsInv, which says what has been searched. *)
(*                                                                         *)
(* It then goes up the same calls once more to compare what each decides   *)
(* of the bytes fed so far with what it decides of all of the log, for     *)
(* SplitInv: what was read and what is left to read are the records of the *)
(* log read at once.                                                       *)
(***************************************************************************)
EXTENDS PythonLog, TokenizerLemmas, FiniteSetTheorems

-----------------------------------------------------------------------------
(* Where a message starts. *)

\* What a candidate that is not decided can still need.
StartLen == MAX_BEGIN_STRING_LEN + 2 + MAX_TAG_DIGITS

LEMMA Limits ==
  /\ MAX_BEGIN_STRING_LEN \in Nat /\ MAX_BEGIN_STRING_LEN >= 5
  /\ MAX_TAG_DIGITS \in Nat /\ MAX_TAG_DIGITS >= 1
  /\ MAX_MESSAGE_LEN \in Nat /\ MAX_MESSAGE_LEN >= 1
  /\ MAX_PREFIX_LEN \in Nat /\ MAX_PREFIX_LEN >= 1
  /\ MAX_BODY_LENGTH_DIGITS \in Nat
  /\ StartLen \in Nat /\ StartLen = MAX_BEGIN_STRING_LEN + 2 + MAX_TAG_DIGITS
<1> QED BY FramingAssumption, LogTextAssumption, LogReaderAssumption DEF StartLen, PREFIX_LEN

LEMMA RunEndProperties ==
  ASSUME NEW b \in Seq(Byte), NEW from \in Nat, from <= Len(b), NEW S
  PROVE  /\ RunEnd(b, from, S) \in from .. Len(b)
         /\ RunEnd(b, from, S) < Len(b) => At(b, RunEnd(b, from, S)) \notin S
         /\ \A i \in from .. RunEnd(b, from, S) - 1 : At(b, i) \in S
<1> DEFINE T == {i \in from .. Len(b) : i < Len(b) => At(b, i) \notin S}
           e == Least(T)
<1>1. Len(b) \in Nat /\ Len(b) \in T
  OBVIOUS
<1>2. T \subseteq Nat
  OBVIOUS
<1>3. e \in T /\ \A i \in T : e <= i
  <2> HIDE DEF T
  <2> QED BY <1>1, <1>2, LeastProperties
<1> HIDE DEF e
<1>4. \A i \in from .. e - 1 : At(b, i) \in S
  BY <1>1, <1>3
<1>5. RunEnd(b, from, S) = e
  BY DEF RunEnd, e
<1> QED BY <1>1, <1>3, <1>4, <1>5

\* What check makes of a candidate: a start, with what separates its fields,
\* none, or one that needs more bytes than there are, and they are few.
CheckResult(b, x) ==
  \/ x = NotStart
  \/ x = Pending /\ Len(b) <= StartLen
  \/ \E s \in Byte \cup {CaretA} : x = Start(s)

LEMMA CheckTagCases ==
  ASSUME NEW b \in Seq(Byte), NEW from \in Nat, from <= Len(b),
         from <= MAX_BEGIN_STRING_LEN + 2, NEW s \in Byte \cup {CaretA}
  PROVE  CheckResult(b, CheckTag(b, from, s))
<1> DEFINE e == RunEnd(b, from, Digit)
           x == CheckTag(b, from, s)
<1>1. e \in from .. Len(b) /\ Len(b) \in Nat
  BY RunEndProperties
<1>2. x = IF e - from > MAX_TAG_DIGITS THEN NotStart
          ELSE IF e = Len(b) THEN Pending
          ELSE IF e > from /\ At(b, e) = EQUALS THEN Start(s)
          ELSE NotStart
  BY Zenon DEF CheckTag
<1> HIDE DEF e, x
<1>3. CASE ~(e - from > MAX_TAG_DIGITS) /\ e = Len(b)
  <2>1. Len(b) <= StartLen
    BY <1>1, <1>3, Limits
  <2> QED BY <1>2, <1>3, <2>1 DEF CheckResult, x
<1>4. CASE ~(~(e - from > MAX_TAG_DIGITS) /\ e = Len(b))
  <2>1. x = NotStart \/ x = Start(s)
    BY <1>2, <1>4
  <2> QED BY <2>1 DEF CheckResult, x
<1> QED BY <1>3, <1>4

LEMMA CheckCases ==
  ASSUME NEW b \in Seq(Byte), NEW override \in Byte \cup {None}
  PROVE  CheckResult(b, check(b, override))
<1> DEFINE v == RunEnd(b, PREFIX_LEN, BeginStringByte)
           separated == CheckSeparator(b, v, override)
           x == check(b, override)
<1>0. Len(b) \in Nat /\ PREFIX_LEN = 5
  BY DEF PREFIX_LEN
<1>1. CASE ~MatchesPrefix(b, 0, Lesser(Len(b), PREFIX_LEN))
  <2>1. x = NotStart
    BY <1>1 DEF check
  <2> QED BY <2>1 DEF CheckResult
<1>2. CASE MatchesPrefix(b, 0, Lesser(Len(b), PREFIX_LEN)) /\ Len(b) < PREFIX_LEN
  <2>1. x = Pending
    BY <1>2 DEF check
  <2>2. Len(b) <= StartLen
    BY <1>0, <1>2, Limits
  <2> QED BY <2>1, <2>2 DEF CheckResult
<1>3. CASE MatchesPrefix(b, 0, Lesser(Len(b), PREFIX_LEN)) /\ ~(Len(b) < PREFIX_LEN)
  <2>1. x = CheckValue(b, v, override)
    BY <1>3 DEF check
  <2>2. v \in 5 .. Len(b)
    BY <1>0, <1>3, RunEndProperties
  <2> HIDE DEF v
  <2>3. CASE v > MAX_BEGIN_STRING_LEN
    <3>1. x = NotStart
      BY <2>1, <2>3 DEF CheckValue
    <3> QED BY <3>1 DEF CheckResult
  <2>4. CASE ~(v > MAX_BEGIN_STRING_LEN)
    <3>1. x = CheckSeparated(b, v, separated)
      BY <2>1, <2>4 DEF CheckValue
    <3>2. \/ separated = NotStart
          \/ separated = Pending /\ Len(b) <= v + 1
          \/ v < Len(b) /\ \E s \in Byte : separated = Start(s)
          \/ v + 1 < Len(b) /\ separated = Start(CaretA)
      <4> DEFINE found == At(b, v)
      <4>1. CASE v = Len(b)
        BY <1>0, <4>1 DEF CheckSeparator
      <4>2. CASE v # Len(b)
        <5>1. v < Len(b) /\ v \in Nat
          BY <1>0, <2>2, <4>2
        <5>2. found \in Byte
          <6>1. v + 1 \in 1 .. Len(b)
            BY <1>0, <5>1
          <6> QED BY <6>1, ElementOfSeq DEF At
        <5>3. separated =
                IF override # None
                  THEN IF found = override THEN Start(override) ELSE NotStart
                ELSE IF found \in {LF, CR} THEN NotStart
                ELSE IF found # CARET THEN Start(found)
                ELSE IF v + 1 = Len(b) THEN Pending
                ELSE IF At(b, v + 1) = LETTER_A THEN Start(CaretA)
                ELSE Start(CARET)
          BY <4>2, Zenon DEF CheckSeparator
        <5> HIDE DEF found, separated
        <5>4. CARET \in Byte
          BY DEF CARET, Byte
        <5> QED BY <1>0, <5>1, <5>2, <5>3, <5>4
      <4> QED BY <4>1, <4>2
    <3> HIDE DEF separated
    <3>3. CASE separated = NotStart
      <4>1. x = NotStart
        BY <3>1, <3>3 DEF CheckSeparated, NotStart
      <4> QED BY <4>1 DEF CheckResult
    <3>4. CASE separated = Pending /\ Len(b) <= v + 1
      <4>1. x = Pending
        BY <3>1, <3>4 DEF CheckSeparated, Pending
      <4>2. Len(b) <= StartLen
        BY <1>0, <2>2, <2>4, <3>4, Limits
      <4> QED BY <4>1, <4>2 DEF CheckResult
    <3>5. ASSUME NEW s \in Byte, v < Len(b), separated = Start(s)
          PROVE  CheckResult(b, x)
      <4>1. x = CheckTag(b, v + 1, s)
        <5>1. s # CaretA /\ separated.kind = "Start" /\ separated.separator = s
          BY <3>5 DEF CaretA, Byte, Start
        <5>2. x = CheckTag(b, v + (IF s = CaretA THEN 2 ELSE 1), s)
          BY <3>1, <5>1 DEF CheckSeparated
        <5> QED BY <5>1, <5>2
      <4>2. v + 1 \in Nat /\ v + 1 <= Len(b) /\ v + 1 <= MAX_BEGIN_STRING_LEN + 2
        BY <1>0, <2>2, <2>4, <3>5, Limits
      <4> HIDE DEF x
      <4> QED BY <4>1, <4>2, CheckTagCases
    <3>6. ASSUME v + 1 < Len(b), separated = Start(CaretA)
          PROVE  CheckResult(b, x)
      <4>1. x = CheckTag(b, v + 2, CaretA)
        BY <3>1, <3>6 DEF CheckSeparated, Start
      <4>2. v + 2 \in Nat /\ v + 2 <= Len(b) /\ v + 2 <= MAX_BEGIN_STRING_LEN + 2
        BY <1>0, <2>2, <2>4, <3>6, Limits
      <4> HIDE DEF x
      <4> QED BY <4>1, <4>2, CheckTagCases
    <3> QED BY <3>2, <3>3, <3>4, <3>5, <3>6
  <2> QED BY <2>3, <2>4
<1> QED BY <1>1, <1>2, <1>3

\* What find_start comes to: nothing, a start in the range, or a candidate in
\* it, with few bytes after it and more of them to come.
StartResult(b, from, to, at_end, x) ==
  \/ x.kind = "NotFound"
  \/ /\ x.kind = "Pending" /\ x.at \in from .. to - 1
     /\ at_end = FALSE /\ Len(b) - x.at <= StartLen
  \/ /\ x.kind = "Found" /\ x.at \in from .. to - 1
     /\ At(b, x.at) = 56 /\ x.separator \in Byte \cup {CaretA}

LEMMA FindStartCases ==
  ASSUME NEW b \in Seq(Byte), NEW from \in Nat, NEW to \in Nat, to <= Len(b),
         NEW override \in Byte \cup {None}, NEW at_end \in BOOLEAN
  PROVE  StartResult(b, from, to, at_end, find_start(b, from, to, override, at_end))
<1> DEFINE D == {i \in from .. to - 1 : /\ At(b, i) = 56
                                        /\ i > 0 => At(b, i - 1) \notin Digit}
           checked == [at \in D |-> check(Slice(b, at, Len(b)), override)]
           decided == {at \in DOMAIN checked :
                         \/ checked[at].kind = "Start"
                         \/ checked[at].kind = "Pending" /\ ~at_end}
           first == Least(decided)
           x == find_start(b, from, to, override, at_end)
<1>0. Len(b) \in Nat
  OBVIOUS
<1>1. x = IF decided = {} THEN [kind |-> "NotFound"]
          ELSE IF checked[first].kind = "Pending" THEN [kind |-> "Pending", at |-> first]
          ELSE [kind |-> "Found", at |-> first, separator |-> checked[first].separator]
  BY Zenon DEF find_start, FirstDecided
<1>2. CASE decided = {}
  <2> HIDE DEF decided, checked
  <2>1. x = [kind |-> "NotFound"]
    BY <1>1, <1>2
  <2> HIDE DEF x
  <2>2. StartResult(b, from, to, at_end, x)
    BY <2>1 DEF StartResult
  <2> QED BY <2>2 DEF x
<1>3. CASE decided # {}
  <2>1. decided \subseteq D /\ D \subseteq Nat
    OBVIOUS
  <2>2. first \in decided
    <3> HIDE DEF decided
    <3> QED BY <1>3, <2>1, LeastProperties
  <2> DEFINE rest == Slice(b, first, Len(b))
             c == checked[first]
  <2>3. /\ first \in from .. to - 1 /\ At(b, first) = 56
        /\ c = check(rest, override)
        /\ c.kind = "Start" \/ (c.kind = "Pending" /\ ~at_end)
    <3>1. \A k \in decided : k \in from .. to - 1 /\ At(b, k) = 56
      OBVIOUS
    <3>2. \A k \in decided : checked[k] = check(Slice(b, k, Len(b)), override)
      OBVIOUS
    <3>3. \A k \in decided : \/ checked[k].kind = "Start"
                             \/ checked[k].kind = "Pending" /\ ~at_end
      <4> HIDE DEF checked
      <4> QED OBVIOUS
    <3> HIDE DEF first, decided, checked
    <3> QED BY <2>2, <3>1, <3>2, <3>3
  <2>4. rest \in Seq(Byte) /\ Len(rest) = Len(b) - first
    <3>1. first \in Nat /\ first <= Len(b)
      <4> HIDE DEF first
      <4> QED BY <1>0, <2>3
    <3>2. \A i, j \in Nat : i <= j /\ j <= Len(b) =>
            /\ Slice(b, i, j) \in Seq(Byte)
            /\ Len(Slice(b, i, j)) = j - i
            /\ \A k \in 1 .. j - i : Slice(b, i, j)[k] = b[i + k]
      BY SliceProperties
    <3>3. Len(b) \in Nat /\ Len(b) <= Len(b)
      BY <1>0
    <3> HIDE DEF first
    <3> QED BY <3>1, <3>2, <3>3, Zenon
  <2>5. CheckResult(rest, check(rest, override))
    <3> HIDE DEF rest
    <3> QED BY <2>4, CheckCases
  <2> HIDE DEF first, rest, c, decided
  <2>6. x = IF c.kind = "Pending" THEN [kind |-> "Pending", at |-> first]
            ELSE [kind |-> "Found", at |-> first, separator |-> c.separator]
    BY <1>1, <1>3 DEF c
  <2> HIDE DEF x, checked
  <2>7. CASE c = Pending /\ Len(rest) <= StartLen
    <3>1. x = [kind |-> "Pending", at |-> first] /\ ~at_end
      BY <2>3, <2>6, <2>7 DEF Pending
    <3> QED BY <2>3, <2>4, <2>7, <3>1 DEF StartResult, x
  <2>8. ASSUME NEW s \in Byte \cup {CaretA}, c = Start(s)
        PROVE  StartResult(b, from, to, at_end, x)
    <3>1. x = [kind |-> "Found", at |-> first, separator |-> s]
      BY <2>6, <2>8 DEF Start
    <3> QED BY <2>3, <3>1 DEF StartResult
  <2>9. c # NotStart
    BY <2>3 DEF NotStart
  <2> QED BY <2>3, <2>5, <2>7, <2>8, <2>9 DEF CheckResult, x
<1> QED BY <1>2, <1>3

-----------------------------------------------------------------------------
(* Where a message ends.  b is the buffer from a message's start on: its    *)
(* first byte is the "8" of "8=".                                           *)

\* The end of a message, with at most a line break after it.
EndOK(b, x) ==
  /\ x.kind = "End" /\ x.len \in Nat /\ x.consumed \in Nat
  /\ 1 <= x.len /\ x.len <= x.consumed /\ x.consumed <= Len(b)
  /\ x.truncated \in BOOLEAN
  /\ Slice(b, x.len, x.consumed) \in {<<>>, <<LF>>, <<CR, LF>>}

\* An end that is waited for: more bytes may come, and there are few.
WaitOK(b, at_end, x) ==
  x = Waiting /\ at_end = FALSE /\ Len(b) <= MAX_MESSAGE_LEN + StartLen

LEMMA ShortSlices ==
  ASSUME NEW b \in Seq(Byte), NEW i \in Nat, i <= Len(b)
  PROVE  /\ Slice(b, i, i) = <<>>
         /\ i + 1 <= Len(b) => Slice(b, i, i + 1) = <<At(b, i)>>
         /\ i + 2 <= Len(b) => Slice(b, i, i + 2) = <<At(b, i), At(b, i + 1)>>
<1>2. Slice(b, i, i) = <<>>
  <2> DEFINE s == Slice(b, i, i)
  <2>0. i <= i
    OBVIOUS
  <2>1. s \in Seq(Byte) /\ Len(s) = i - i
    BY ByteSlices, <2>0, Zenon
  <2>2. i - i = 0
    OBVIOUS
  <2> HIDE DEF s
  <2>3. s = <<>>
    BY <2>1, <2>2
  <2> QED BY <2>3 DEF s
<1>3. ASSUME i + 1 <= Len(b)
      PROVE  Slice(b, i, i + 1) = <<At(b, i)>>
  <2> DEFINE s == Slice(b, i, i + 1)
  <2>0. i + 1 \in Nat /\ i <= i + 1
    OBVIOUS
  <2>1. s \in Seq(Byte) /\ Len(s) = (i + 1) - i
        /\ \A m \in 1 .. (i + 1) - i : s[m] = b[i + m]
    BY ByteSlices, <1>3, <2>0, Zenon
  <2> HIDE DEF s
  <2>2. Len(s) = 1 /\ s[1] = b[i + 1]
    BY <2>1
  <2>3. s = <<b[i + 1]>>
    BY <2>1, <2>2
  <2> QED BY <2>3 DEF s, At
<1>4. ASSUME i + 2 <= Len(b)
      PROVE  Slice(b, i, i + 2) = <<At(b, i), At(b, i + 1)>>
  <2> DEFINE s == Slice(b, i, i + 2)
  <2>0. i + 2 \in Nat /\ i <= i + 2 /\ (i + 1) + 1 = i + 2
    OBVIOUS
  <2>1. s \in Seq(Byte) /\ Len(s) = (i + 2) - i
        /\ \A m \in 1 .. (i + 2) - i : s[m] = b[i + m]
    BY ByteSlices, <1>4, <2>0, Zenon
  <2> HIDE DEF s
  <2>2. Len(s) = 2 /\ s[1] = b[i + 1] /\ s[2] = b[i + 2]
    BY <2>1
  <2>3. s = <<b[i + 1], b[i + 2]>>
    BY <2>1, <2>2
  <2> QED BY <2>0, <2>3 DEF s, At
<1> QED BY <1>2, <1>3, <1>4

\* The bytes a message can hold are the first of b, and leave one out only at
\* the cap or at the end of the input.
LEMMA CappedProperties ==
  ASSUME NEW b \in Seq(Byte), Len(b) >= 1, At(b, 0) = 56, NEW at_end \in BOOLEAN
  PROVE  LET c == Capped(b, at_end)
         IN  /\ c \in Seq(Byte) /\ Len(c) \in 1 .. Len(b) /\ Len(c) <= MAX_MESSAGE_LEN
             /\ \A i \in 0 .. Len(c) - 1 : At(c, i) = At(b, i)
             /\ ~CappedFinal(b, at_end) => at_end = FALSE /\ Len(b) < MAX_MESSAGE_LEN
<1> DEFINE cut == at_end /\ Len(b) > 0 /\ At(b, Len(b) - 1) = CR
           len == IF cut THEN Len(b) - 1 ELSE Len(b)
           n == Lesser(len, MAX_MESSAGE_LEN)
           c == Capped(b, at_end)
<1>0. Len(b) \in Nat
  OBVIOUS
<1>1. len \in 1 .. Len(b) /\ (~at_end => len = Len(b))
  <2>1. CASE cut
    <3>1. len = Len(b) - 1 /\ at_end
      BY <2>1
    <3>2. Len(b) # 1
      <4>1. ASSUME Len(b) = 1
            PROVE  FALSE
        <5>1. Len(b) - 1 = 0 /\ At(b, Len(b) - 1) = CR
          BY <2>1, <4>1
        <5>2. At(b, 0) = CR
          BY <5>1
        <5> QED BY <5>2 DEF CR
      <4> QED BY <4>1
    <3>3. Len(b) - 1 \in 1 .. Len(b)
      BY <1>0, <3>2
    <3> HIDE DEF cut, len
    <3> QED BY <3>1, <3>3
  <2>2. CASE ~cut
    <3>1. len = Len(b)
      BY <2>2
    <3> HIDE DEF cut, len
    <3> QED BY <1>0, <3>1
  <2> QED BY <2>1, <2>2
<1>2. c = Slice(b, 0, n)
  BY Zenon DEF Capped
<1> HIDE DEF len, c
<1>3. n \in 1 .. Len(b) /\ n <= MAX_MESSAGE_LEN /\ (n # MAX_MESSAGE_LEN => n = len)
  BY <1>0, <1>1, Limits DEF Lesser
<1> HIDE DEF n
<1>4. c \in Seq(Byte) /\ Len(c) = n - 0 /\ \A m \in 1 .. n - 0 : c[m] = b[0 + m]
  <2>1. 0 \in Nat /\ n \in Nat /\ 0 <= n /\ n <= Len(b)
    BY <1>0, <1>3
  <2> QED BY <1>2, <2>1, ByteSlices, ZenonT(40)
<1>5. \A i \in 0 .. Len(c) - 1 : At(c, i) = At(b, i)
  BY <1>3, <1>4 DEF At
<1>6. ~CappedFinal(b, at_end) => at_end = FALSE /\ Len(b) < MAX_MESSAGE_LEN
  <2>1. ~CappedFinal(b, at_end) => ~at_end /\ Len(c) # MAX_MESSAGE_LEN
    BY Zenon DEF CappedFinal, c
  <2>2. Len(c) = n
    BY <1>3, <1>4
  <2>3. ASSUME ~at_end, n # MAX_MESSAGE_LEN
        PROVE  at_end = FALSE /\ Len(b) < MAX_MESSAGE_LEN
    <3>1. Len(b) = n
      BY <1>1, <1>3, <2>3
    <3>2. at_end = FALSE
      BY <2>3
    <3> QED BY <1>0, <1>3, <2>3, <3>1, <3>2, Limits
  <2> QED BY <2>1, <2>2, <2>3
<1> QED BY <1>3, <1>4, <1>5, <1>6 DEF c

\* c stands for the bytes of b that a message can hold.
CappedOf(b, c) ==
  /\ b \in Seq(Byte) /\ Len(b) >= 1 /\ At(b, 0) = 56
  /\ c \in Seq(Byte) /\ Len(c) \in 1 .. Len(b) /\ Len(c) <= MAX_MESSAGE_LEN
  /\ \A i \in 0 .. Len(c) - 1 : At(c, i) = At(b, i)

LEMMA LineBreakEnd ==
  ASSUME NEW b, NEW c, CappedOf(b, c), NEW at \in 1 .. Len(c) - 1, At(c, at) = LF,
         NEW truncated \in BOOLEAN
  PROVE  EndOK(b, at_line_break(c, at, truncated))
<1> DEFINE len == IF At(c, at - 1) = CR THEN at - 1 ELSE at
           x == at_line_break(c, at, truncated)
<1>0. /\ b \in Seq(Byte) /\ c \in Seq(Byte) /\ Len(b) \in Nat /\ Len(c) \in Nat
      /\ Len(c) <= Len(b) /\ at \in Nat
  BY DEF CappedOf
<1>1. x = [kind |-> "End", len |-> len, consumed |-> at + 1, truncated |-> truncated]
  BY DEF at_line_break, End
<1>2. At(c, at - 1) = At(b, at - 1) /\ At(b, at) = LF /\ At(b, 0) = 56
  BY <1>0 DEF CappedOf
<1>3. len \in 1 .. at /\ Slice(b, len, at + 1) \in {<<>>, <<LF>>, <<CR, LF>>}
  <2>1. CASE At(c, at - 1) = CR
    <3>1. at - 1 # 0
      BY <1>2, <2>1 DEF CR
    <3>2. at - 1 \in Nat /\ at - 1 >= 1 /\ (at - 1) + 2 = at + 1 /\ (at - 1) + 1 = at
          /\ at + 1 <= Len(b)
      BY <1>0, <3>1
    <3>3. Slice(b, at - 1, (at - 1) + 2) = <<At(b, at - 1), At(b, (at - 1) + 1)>>
      BY <1>0, <3>2, ShortSlices
    <3> QED BY <1>0, <1>2, <2>1, <3>2, <3>3
  <2>2. CASE At(c, at - 1) # CR
    <3>1. Slice(b, at, at + 1) = <<At(b, at)>>
      BY <1>0, ShortSlices
    <3> QED BY <1>0, <1>2, <2>2, <3>1
  <2> QED BY <2>1, <2>2
<1> HIDE DEF len
<1>4. EndOK(b, x)
  <2> HIDE DEF x
  <2>1. /\ x.kind = "End" /\ x.len = len /\ x.consumed = at + 1
        /\ x.truncated = truncated
    BY <1>1
  <2> QED BY <1>0, <1>3, <2>1 DEF EndOK
<1> QED BY <1>4

\* The message ends at the end of what it can hold.
LEMMA EndAt ==
  ASSUME NEW b \in Seq(Byte), NEW len \in 1 .. Len(b), NEW truncated \in BOOLEAN
  PROVE  EndOK(b, End(len, len, truncated))
<1>1. Slice(b, len, len) = <<>> /\ len \in Nat
  BY ShortSlices
<1> QED BY <1>1 DEF EndOK, End

LEMMA AfterMessage ==
  ASSUME NEW b \in Seq(Byte), NEW len \in 1 .. Len(b), len <= MAX_MESSAGE_LEN,
         NEW at_end \in BOOLEAN
  PROVE  LET x == after_message(b, len, at_end)
         IN  EndOK(b, x) \/ WaitOK(b, at_end, x)
<1> DEFINE rest == Slice(b, len, Len(b))
           x == after_message(b, len, at_end)
<1>0. Len(b) \in Nat /\ len \in Nat /\ len <= Len(b)
  OBVIOUS
<1>1. rest \in Seq(Byte) /\ Len(rest) = Len(b) - len
      /\ \A m \in 1 .. Len(b) - len : rest[m] = b[len + m]
  <2>1. Len(b) <= Len(b)
    BY <1>0
  <2> QED BY <1>0, <2>1, SliceProperties, Zenon
<1>2. x = IF rest \in {<<>>, <<CR>>}
            THEN IF at_end THEN End(len, len, FALSE) ELSE Waiting
          ELSE IF rest[1] = LF THEN End(len, len + 1, FALSE)
          ELSE IF rest[1] = CR /\ rest[2] = LF THEN End(len, len + 2, FALSE)
          ELSE End(len, len, FALSE)
  BY Zenon DEF after_message
<1> HIDE DEF rest, x
<1>3. CASE rest \in {<<>>, <<CR>>} /\ ~at_end
  <2>1. Len(rest) <= 1
    <3>1. CASE rest = <<>>
      BY <3>1
    <3>2. CASE rest = <<CR>>
      BY <3>2
    <3> QED BY <1>3, <3>1, <3>2
  <2>2. Len(b) <= MAX_MESSAGE_LEN + StartLen
    BY <1>0, <1>1, <2>1, Limits
  <2> QED BY <1>2, <1>3, <2>2 DEF WaitOK, x
<1>4. CASE x = End(len, len, FALSE)
  BY <1>4, EndAt DEF x
<1>5. CASE rest \notin {<<>>, <<CR>>} /\ rest[1] = LF
  <2>1. Len(rest) >= 1
    BY <1>1, <1>5
  <2>2. len + 1 <= Len(b) /\ At(b, len) = LF
    BY <1>0, <1>1, <1>5, <2>1 DEF At
  <2>3. Slice(b, len, len + 1) = <<LF>>
    BY <1>0, <2>2, ShortSlices
  <2>4. x = End(len, len + 1, FALSE)
    BY <1>2, <1>5
  <2>5. EndOK(b, x)
    BY <1>0, <2>2, <2>3, <2>4 DEF EndOK, End
  <2> QED BY <2>5 DEF x
<1>6. CASE rest \notin {<<>>, <<CR>>} /\ rest[1] # LF /\ rest[1] = CR /\ rest[2] = LF
  <2>1. Len(rest) >= 2
    <3>1. Len(rest) \in Nat
      BY <1>1
    <3>2. Len(rest) # 0
      BY <1>1, <1>6
    <3>3. Len(rest) # 1
      <4>1. ASSUME Len(rest) = 1
            PROVE  rest = <<CR>>
        BY <1>1, <1>6, <4>1
      <4> QED BY <1>6, <4>1
    <3> DEFINE n == Len(rest)
    <3> HIDE DEF n
    <3>4. n \in Nat /\ n # 0 /\ n # 1
      BY <3>1, <3>2, <3>3 DEF n
    <3>5. n >= 2
      BY <3>4
    <3> QED BY <3>5 DEF n
  <2>2. len + 2 <= Len(b) /\ At(b, len) = CR /\ At(b, len + 1) = LF
    <3>1. rest[1] = b[len + 1] /\ rest[2] = b[len + 2] /\ (len + 1) + 1 = len + 2
      BY <1>0, <1>1, <2>1
    <3> QED BY <1>0, <1>1, <1>6, <2>1, <3>1 DEF At
  <2>3. Slice(b, len, len + 2) = <<CR, LF>>
    BY <1>0, <2>2, ShortSlices
  <2>4. x = End(len, len + 2, FALSE)
    BY <1>2, <1>6
  <2>5. EndOK(b, x)
    BY <1>0, <2>2, <2>3, <2>4 DEF EndOK, End
  <2> QED BY <2>5 DEF x
<1> QED BY <1>2, <1>3, <1>4, <1>5, <1>6 DEF x

EndResult(b, at_end, x) == EndOK(b, x) \/ WaitOK(b, at_end, x)

\* c stands for Capped(b, at_end).
CappedAt(b, c, at_end) ==
  /\ CappedOf(b, c) /\ at_end \in BOOLEAN
  /\ ~CappedFinal(b, at_end) => at_end = FALSE /\ Len(b) < MAX_MESSAGE_LEN

\* To wait before the cap is to wait for few bytes.
LEMMA WaitBeforeCap ==
  ASSUME NEW b, NEW c, NEW at_end, CappedAt(b, c, at_end), ~CappedFinal(b, at_end)
  PROVE  EndResult(b, at_end, Waiting)
<1>1. at_end = FALSE /\ Len(b) < MAX_MESSAGE_LEN /\ Len(b) \in Nat
  BY DEF CappedAt, CappedOf
<1>2. Len(b) <= MAX_MESSAGE_LEN + StartLen
  BY <1>1, Limits
<1> QED BY <1>1, <1>2 DEF EndResult, WaitOK

LEMMA EndAtCap ==
  ASSUME NEW b, NEW c, NEW at_end, CappedAt(b, c, at_end), NEW truncated \in BOOLEAN
  PROVE  EndResult(b, at_end, End(Len(c), Len(c), truncated))
<1>1. b \in Seq(Byte) /\ Len(c) \in 1 .. Len(b)
  BY DEF CappedAt, CappedOf
<1> QED BY <1>1, EndAt DEF EndResult

LEMMA ChecksumEndCases ==
  ASSUME NEW b, NEW c, NEW at_end, CappedAt(b, c, at_end),
         NEW value_start \in Nat \ {0}, NEW separator \in Byte
  PROVE  EndResult(b, at_end, ChecksumEnd(b, c, value_start, separator, at_end))
<1> DEFINE ends == {i \in value_start .. Len(c) - 1 : At(c, i) \in {separator, LF}}
           at == Least(ends)
           x == ChecksumEnd(b, c, value_start, separator, at_end)
<1>0. /\ b \in Seq(Byte) /\ Len(c) \in Nat /\ Len(b) \in Nat /\ Len(c) <= Len(b)
      /\ Len(c) <= MAX_MESSAGE_LEN /\ CappedOf(b, c) /\ at_end \in BOOLEAN
  BY DEF CappedAt, CappedOf
<1>1. x = IF ends = {}
            THEN IF CappedFinal(b, at_end) THEN End(Len(c), Len(c), FALSE) ELSE Waiting
          ELSE IF At(c, at) = separator THEN after_message(b, at + 1, at_end)
          ELSE at_line_break(c, at, FALSE)
  BY Zenon DEF ChecksumEnd
<1>2. ASSUME ends # {}
      PROVE  at \in value_start .. Len(c) - 1 /\ At(c, at) \in {separator, LF}
  <2>1. ends \subseteq Nat
    OBVIOUS
  <2>2. at \in ends
    <3> HIDE DEF ends
    <3> QED BY <1>2, <2>1, LeastProperties
  <2>3. \A i \in ends : i \in value_start .. Len(c) - 1 /\ At(c, i) \in {separator, LF}
    OBVIOUS
  <2> HIDE DEF at, ends
  <2> QED BY <2>2, <2>3
<1> HIDE DEF ends, at, x
<1>3. CASE ends = {} /\ CappedFinal(b, at_end)
  <2>1. x = End(Len(c), Len(c), FALSE)
    BY <1>1, <1>3
  <2> QED BY <2>1, EndAtCap DEF x
<1>4. CASE ends = {} /\ ~CappedFinal(b, at_end)
  <2>1. x = Waiting
    BY <1>1, <1>4
  <2> QED BY <1>4, <2>1, WaitBeforeCap DEF x
<1>5. CASE ends # {} /\ At(c, at) = separator
  <2>1. x = after_message(b, at + 1, at_end)
    BY <1>1, <1>5
  <2>2. at + 1 \in 1 .. Len(b) /\ at + 1 <= MAX_MESSAGE_LEN
    <3>1. at \in value_start .. Len(c) - 1
      BY <1>2, <1>5
    <3> QED BY <1>0, <3>1, Limits
  <2>3. EndResult(b, at_end, after_message(b, at + 1, at_end))
    BY <1>0, <2>2, AfterMessage DEF EndResult
  <2> QED BY <2>1, <2>3 DEF x
<1>6. CASE ends # {} /\ At(c, at) # separator
  <2>1. x = at_line_break(c, at, FALSE)
    BY <1>1, <1>6
  <2>2. at \in 1 .. Len(c) - 1 /\ At(c, at) = LF /\ FALSE \in BOOLEAN
    BY <1>0, <1>2, <1>6
  <2>3. EndOK(b, at_line_break(c, at, FALSE))
    BY <1>0, <2>2, LineBreakEnd
  <2> QED BY <2>1, <2>3 DEF x, EndResult
<1> QED BY <1>3, <1>4, <1>5, <1>6

\* BodyLength gives no end, or a good one.
LEMMA ByBodyLength ==
  ASSUME NEW b \in Seq(Byte), Len(b) >= 1, At(b, 0) = 56, NEW at_end \in BOOLEAN,
         NEW separator \in Byte
  PROVE  LET x == by_body_length(b, separator, at_end)
         IN  x = NoEnd \/ EndResult(b, at_end, x)
<1> DEFINE c == Capped(b, at_end)
           tag_start == RunEnd(c, 0, Byte \ {separator}) + 1
           digits_end == RunEnd(c, tag_start + 2, Digit)
           x == by_body_length(b, separator, at_end)
<1>0. CappedAt(b, c, at_end)
  BY CappedProperties DEF CappedAt, CappedOf
<1>1. x = EndByTag(b, c, tag_start, separator, at_end)
  BY Zenon DEF by_body_length
<1> HIDE DEF c
<1>2. c \in Seq(Byte) /\ Len(c) \in Nat
  BY <1>0 DEF CappedAt, CappedOf
<1>3. tag_start \in Nat
  <2>1. RunEnd(c, 0, Byte \ {separator}) \in 0 .. Len(c)
    BY <1>2, RunEndProperties
  <2> QED BY <1>2, <2>1
<1> HIDE DEF tag_start, x
<1>4. CASE ~Matches(c, tag_start, BODY_LENGTH_TAG)
  <2>1. x = NoEnd
    BY <1>1, <1>4 DEF EndByTag
  <2> QED BY <2>1 DEF x
<1>5. CASE Matches(c, tag_start, BODY_LENGTH_TAG)
  <2> DEFINE body_length == parse_u32(Slice(c, tag_start + 2, digits_end))
             trailer_start == digits_end + 1 + body_length
             pending == IF CappedFinal(b, at_end) THEN NoEnd ELSE Waiting
  <2>1. tag_start + 2 \in Nat /\ tag_start + 2 <= Len(c)
    BY <1>2, <1>3, <1>5 DEF Matches, BODY_LENGTH_TAG
  <2>2. digits_end \in tag_start + 2 .. Len(c)
    <3> HIDE DEF digits_end
    <3> QED BY <1>2, <2>1, RunEndProperties DEF digits_end
  <2>3. x = EndByDigits(b, c, tag_start + 2, digits_end, separator, at_end)
    BY <1>1, <1>5 DEF EndByTag
  <2>4. x = IF digits_end - (tag_start + 2) > MAX_BODY_LENGTH_DIGITS THEN NoEnd
            ELSE IF digits_end = Len(c) THEN pending
            ELSE IF At(c, digits_end) # separator \/ body_length = None THEN NoEnd
            ELSE IF Len(c) < trailer_start + 3 THEN pending
            ELSE IF ~Matches(c, trailer_start - 1, <<separator>> \o CHECKSUM_TAG)
              THEN NoEnd
            ELSE ChecksumEnd(b, c, trailer_start + 3, separator, at_end)
    <3> HIDE DEF digits_end
    <3> QED BY <2>3, Zenon DEF EndByDigits
  <2>5. body_length \in Nat \cup {None}
    <3> HIDE DEF digits_end
    <3>1. digits_end \in Nat /\ tag_start + 2 <= digits_end /\ digits_end <= Len(c)
      BY <1>2, <2>1, <2>2
    <3> QED BY <1>2, <2>1, <3>1, ParseU32
  <2>6. CASE x = NoEnd
    BY <2>6 DEF x
  <2>7. CASE x = Waiting /\ ~CappedFinal(b, at_end)
    BY <1>0, <2>7, WaitBeforeCap DEF x
  <2>8. CASE body_length \in Nat /\ x = ChecksumEnd(b, c, trailer_start + 3, separator, at_end)
    <3>1. trailer_start + 3 \in Nat \ {0}
      <4>1. digits_end \in Nat
        BY <1>2, <2>1, <2>2
      <4> HIDE DEF digits_end, body_length
      <4> QED BY <2>8, <4>1
    <3> HIDE DEF trailer_start
    <3>2. EndResult(b, at_end, x)
      BY <1>0, <2>8, <3>1, ChecksumEndCases
    <3> QED BY <3>2 DEF x
  <2> HIDE DEF trailer_start, body_length, digits_end
  <2>9. \/ x = NoEnd \/ (x = Waiting /\ ~CappedFinal(b, at_end))
        \/ body_length \in Nat /\ x = ChecksumEnd(b, c, trailer_start + 3, separator, at_end)
    BY <2>4, <2>5
  <2> QED BY <2>6, <2>7, <2>8, <2>9
<1> QED BY <1>4, <1>5

\* What one turn of walk comes to: an end, or a field further on in c.
StopResult(b, c, pos, at_end, x) ==
  \/ EndResult(b, at_end, x)
  \/ /\ x.kind = "Walking" /\ x.after \in Nat /\ pos < x.after /\ x.after <= Len(c)
     /\ x.data_len \in Nat \cup {None}

FieldAt(c, pos, field) ==
  /\ field \in FieldType /\ pos <= field.value_start
  /\ field.value_start <= field.value_end /\ field.value_end <= Len(c)

LEMMA StopAtCases ==
  ASSUME NEW b, NEW c, NEW at_end, CappedAt(b, c, at_end),
         NEW is_field \in BOOLEAN, NEW field, NEW pos \in Nat,
         is_field => FieldAt(c, pos, field),
         NEW from \in Nat \ {0}, NEW to \in Nat, to <= Len(c),
         NEW start, StartResult(b, from, to, at_end, start),
         NEW breaks,
         breaks # {} => Least(breaks) \in 1 .. Len(c) - 1 /\ At(c, Least(breaks)) = LF
  PROVE  StopResult(b, c, pos, at_end,
                    StopAt(b, c, is_field, field, start, breaks, at_end))
<1> DEFINE is_checksum == is_field /\ field.tag = CHECKSUM
           at_last_byte == ~is_field \/ field.value_end = Len(c)
           at == Least(breaks)
           data_len == pending_data_len(c, field)
           x == StopAt(b, c, is_field, field, start, breaks, at_end)
<1>0. /\ b \in Seq(Byte) /\ c \in Seq(Byte) /\ Len(c) \in Nat /\ Len(b) \in Nat
      /\ Len(c) <= Len(b) /\ Len(c) <= MAX_MESSAGE_LEN /\ CappedOf(b, c)
      /\ at_end \in BOOLEAN
  BY DEF CappedAt, CappedOf
<1>1. x = IF start.kind = "Pending" THEN Waiting
          ELSE IF start.kind = "Found" THEN End(start.at, start.at, TRUE)
          ELSE IF breaks # {} THEN at_line_break(c, at, ~is_checksum)
          ELSE IF at_last_byte
            THEN IF CappedFinal(b, at_end) THEN End(Len(c), Len(c), ~is_checksum)
                 ELSE Waiting
          ELSE IF is_checksum THEN after_message(b, field.value_end + 1, at_end)
          ELSE [kind |-> "Walking", after |-> field.value_end + 1, data_len |-> data_len]
  BY Zenon DEF StopAt
<1>2. (~is_checksum) \in BOOLEAN
  OBVIOUS
<1>3. ~at_last_byte => /\ FieldAt(c, pos, field) /\ field.value_end \in Nat
                       /\ field.value_start \in Nat /\ field.value_end + 1 \in 1 .. Len(c)
                       /\ pos < field.value_end + 1
  <2>1. ASSUME ~at_last_byte
        PROVE  FieldAt(c, pos, field) /\ field.value_end # Len(c)
    BY <2>1
  <2>2. ASSUME FieldAt(c, pos, field), field.value_end # Len(c)
        PROVE  /\ field.value_end \in Nat /\ field.value_start \in Nat
               /\ field.value_end + 1 \in 1 .. Len(c) /\ pos < field.value_end + 1
    <3>1. field.value_end \in Nat /\ field.value_start \in Nat
      BY <2>2 DEF FieldAt, FieldType
    <3> QED BY <1>0, <2>2, <3>1 DEF FieldAt
  <2> HIDE DEF at_last_byte
  <2> QED BY <2>1, <2>2
<1> HIDE DEF x, is_checksum, at_last_byte, at, data_len
<1>4. CASE start.kind = "Pending"
  <2>1. x = Waiting
    BY <1>1, <1>4
  <2>2. at_end = FALSE /\ start.at \in from .. to - 1 /\ Len(b) - start.at <= StartLen
    BY <1>4 DEF StartResult
  <2>3. Len(b) <= MAX_MESSAGE_LEN + StartLen
    BY <1>0, <2>2, Limits
  <2> QED BY <2>1, <2>2, <2>3 DEF StopResult, EndResult, WaitOK, x
<1>5. CASE start.kind = "Found"
  <2>1. x = End(start.at, start.at, TRUE)
    BY <1>1, <1>5
  <2>2. start.at \in from .. to - 1
    BY <1>5 DEF StartResult
  <2>3. start.at \in 1 .. Len(b) /\ TRUE \in BOOLEAN
    BY <1>0, <2>2
  <2>4. EndOK(b, End(start.at, start.at, TRUE))
    BY <1>0, <2>3, EndAt
  <2> QED BY <2>1, <2>4 DEF StopResult, EndResult, x
<1>6. CASE start.kind \notin {"Pending", "Found"} /\ breaks # {}
  <2>1. x = at_line_break(c, at, ~is_checksum)
    BY <1>1, <1>6
  <2>2. at \in 1 .. Len(c) - 1 /\ At(c, at) = LF
    BY <1>6 DEF at
  <2>3. EndOK(b, at_line_break(c, at, ~is_checksum))
    BY <1>0, <1>2, <2>2, LineBreakEnd
  <2> QED BY <2>1, <2>3 DEF StopResult, EndResult, x
<1>7. CASE /\ start.kind \notin {"Pending", "Found"} /\ breaks = {} /\ at_last_byte
           /\ CappedFinal(b, at_end)
  <2>1. x = End(Len(c), Len(c), ~is_checksum)
    BY <1>1, <1>7
  <2>2. EndResult(b, at_end, x)
    BY <1>2, <2>1, EndAtCap
  <2> QED BY <2>2 DEF StopResult, x
<1>8. CASE /\ start.kind \notin {"Pending", "Found"} /\ breaks = {} /\ at_last_byte
           /\ ~CappedFinal(b, at_end)
  <2>1. x = Waiting
    BY <1>1, <1>8
  <2>2. EndResult(b, at_end, x)
    BY <1>8, <2>1, WaitBeforeCap
  <2> QED BY <2>2 DEF StopResult, x
<1>9. CASE /\ start.kind \notin {"Pending", "Found"} /\ breaks = {} /\ ~at_last_byte
           /\ is_checksum
  <2>1. x = after_message(b, field.value_end + 1, at_end)
    BY <1>1, <1>9
  <2>2. field.value_end + 1 \in 1 .. Len(b) /\ field.value_end + 1 <= MAX_MESSAGE_LEN
    <3>1. field.value_end + 1 \in 1 .. Len(c)
      BY <1>3, <1>9
    <3> QED BY <1>0, <3>1, Limits
  <2>3. EndResult(b, at_end, after_message(b, field.value_end + 1, at_end))
    BY <1>0, <2>2, AfterMessage DEF EndResult
  <2> QED BY <2>1, <2>3 DEF StopResult, x
<1>10. CASE /\ start.kind \notin {"Pending", "Found"} /\ breaks = {} /\ ~at_last_byte
            /\ ~is_checksum
  <2>1. x = [kind |-> "Walking", after |-> field.value_end + 1, data_len |-> data_len]
    BY <1>1, <1>10
  <2>2. /\ FieldAt(c, pos, field) /\ field.value_end \in Nat /\ field.value_start \in Nat
        /\ field.value_end + 1 \in 1 .. Len(c) /\ pos < field.value_end + 1
    BY <1>3, <1>10
  <2>3. parse_u32(Slice(c, field.value_start, field.value_end)) \in Nat \cup {None}
    BY <1>0, <2>2, ParseU32 DEF FieldAt
  <2>4. data_len \in Nat \cup {None}
    BY <2>3 DEF data_len, pending_data_len, Value
  <2>5. StopResult(b, c, pos, at_end, x)
    BY <1>0, <2>1, <2>2, <2>4 DEF StopResult
  <2> QED BY <2>5 DEF x
<1> QED BY <1>4, <1>5, <1>6, <1>7, <1>8, <1>9, <1>10

\* One turn of walk.
LEMMA WalkStopCases ==
  ASSUME NEW b \in Seq(Byte), Len(b) >= 1, At(b, 0) = 56, NEW at_end \in BOOLEAN,
         NEW pos \in Nat, NEW data_len \in Nat \cup {None}, NEW separator \in Byte,
         NEW override \in Byte \cup {None}
  PROVE  StopResult(b, Capped(b, at_end), pos, at_end,
                    WalkStop(b, pos, data_len, separator, override, at_end))
<1> DEFINE c == Capped(b, at_end)
           is_field == TagEnds(c, pos, separator) # {}
           field == next_field(c, pos, data_len, separator)
           from == IF pos = 0 THEN 1 ELSE pos
           open == /\ is_field /\ data_len # None /\ ~CappedFinal(b, at_end)
                   /\ field.value_start + data_len >= Len(c)
           checked_end == IF ~is_field THEN Len(c)
                          ELSE IF data_len = field.value_end - field.value_start
                            THEN field.value_start
                          ELSE field.value_end
           breaks == Positions(c, from, checked_end, LF)
           search_end == IF breaks = {} THEN checked_end ELSE Least(breaks)
           start == find_start(b, from, search_end, override, at_end)
           x == WalkStop(b, pos, data_len, separator, override, at_end)
<1>0. CappedAt(b, c, at_end)
  BY CappedProperties DEF CappedAt, CappedOf
<1>1. x = StopAtField(b, c, is_field, field, pos, data_len, override, at_end)
  BY Zenon DEF WalkStop
<1> HIDE DEF c
<1>2. /\ c \in Seq(Byte) /\ Len(c) \in Nat /\ Len(b) \in Nat /\ Len(c) <= Len(b)
      /\ is_field \in BOOLEAN
  BY <1>0 DEF CappedAt, CappedOf
<1>3. is_field => FieldAt(c, pos, field)
  <2>1. ASSUME is_field
        PROVE  FieldAt(c, pos, field)
    <3>1. /\ field \in FieldType /\ pos <= field.value_start
          /\ field.value_start <= field.value_end /\ field.value_end <= Len(c)
      BY <1>2, <2>1, NextField
    <3> HIDE DEF field
    <3> QED BY <3>1 DEF FieldAt
  <2> HIDE DEF field
  <2> QED BY <2>1
<1> HIDE DEF is_field, field
<1>4. x = IF open THEN Waiting
          ELSE SearchField(b, c, is_field, field, from, checked_end, override, at_end)
  BY <1>1, Zenon DEF StopAtField
<1>5. from \in Nat \ {0}
  OBVIOUS
<1>6. checked_end \in Nat /\ checked_end <= Len(c)
  <2>1. CASE ~is_field
    BY <1>2, <2>1
  <2>2. CASE is_field
    <3>1. /\ field.value_start \in Nat /\ field.value_end \in Nat
          /\ field.value_start <= field.value_end /\ field.value_end <= Len(c)
      BY <1>3, <2>2 DEF FieldAt, FieldType
    <3> QED BY <1>2, <2>2, <3>1
  <2> QED BY <2>1, <2>2
<1> HIDE DEF x
<1>7. CASE open
  <2>1. ~CappedFinal(b, at_end)
    BY <1>7
  <2>2. EndResult(b, at_end, x)
    <3> HIDE DEF open
    <3> QED BY <1>0, <1>4, <1>7, <2>1, WaitBeforeCap
  <2> QED BY <2>2 DEF StopResult, x, c
<1>8. CASE ~open
  <2>1. x = SearchField(b, c, is_field, field, from, checked_end, override, at_end)
    <3> HIDE DEF open
    <3> QED BY <1>4, <1>8
  <2> HIDE DEF open, from, checked_end
  <2>2. x = StopAt(b, c, is_field, field, start, breaks, at_end)
    BY <2>1, Zenon DEF SearchField
  <2>3. breaks # {} => /\ Least(breaks) \in from .. checked_end - 1
                       /\ At(c, Least(breaks)) = LF
    <3>1. from \in Nat /\ checked_end \in Int
      BY <1>5, <1>6
    <3>2. \A i \in Nat, k \in Int :
            Positions(c, i, k, LF) # {} =>
              /\ Least(Positions(c, i, k, LF)) \in i .. k - 1
              /\ At(c, Least(Positions(c, i, k, LF))) = LF
              /\ \A m \in i .. Least(Positions(c, i, k, LF)) - 1 : At(c, m) # LF
      BY FirstPosition
    <3> QED BY <3>1, <3>2, Zenon
  <2> HIDE DEF breaks
  <2>4. search_end \in Nat /\ search_end <= Len(c) /\ search_end <= Len(b)
    BY <1>2, <1>5, <1>6, <2>3
  <2> HIDE DEF search_end
  <2>5. StartResult(b, from, search_end, at_end, start)
    <3>1. from \in Nat
      BY <1>5
    <3> QED BY <2>4, <3>1, FindStartCases
  <2> HIDE DEF start
  <2>6. breaks # {} => Least(breaks) \in 1 .. Len(c) - 1 /\ At(c, Least(breaks)) = LF
    <3> DEFINE at == Least(breaks)
    <3> HIDE DEF at
    <3>1. at \in from .. checked_end - 1 => at \in 1 .. Len(c) - 1
      BY <1>2, <1>5, <1>6
    <3> QED BY <2>3, <3>1 DEF at
  <2>7. StopResult(b, c, pos, at_end, StopAt(b, c, is_field, field, start, breaks, at_end))
    BY <1>0, <1>2, <1>3, <1>5, <2>4, <2>5, <2>6, StopAtCases
  <2> QED BY <2>2, <2>7 DEF x, c
<1> QED BY <1>7, <1>8

\* f is a walk by the turns F from the position n on.
IsWalk(f, F, S, n) ==
  f = [s \in S |->
         IF s.pos >= n /\ F[s].kind = "Walking"
           THEN f[[pos |-> F[s].after, data_len |-> F[s].data_len]]
         ELSE F[s]]

\* When the turns of a walk get further on, and no further than L, the walk is
\* a function: the least n from which there is none would have an n - 1.
LEMMA WalkExists ==
  ASSUME NEW F, NEW S, NEW L \in Nat,
         \A s \in S : s.pos \in Nat,
         \A s \in S : F[s].kind = "Walking" =>
           /\ s.pos < F[s].after /\ F[s].after <= L
           /\ [pos |-> F[s].after, data_len |-> F[s].data_len] \in S
  PROVE  \E f : IsWalk(f, F, S, 0)
<1> DEFINE Reached == {n \in Nat : \E f : IsWalk(f, F, S, n)}
           n == Least(Reached)
           next(s) == [pos |-> F[s].after, data_len |-> F[s].data_len]
<1>0. \A s \in S : F[s].kind = "Walking" =>
         next(s) \in S /\ next(s).pos = F[s].after /\ s.pos < next(s).pos /\ next(s).pos <= L
  OBVIOUS
<1>e. \A f, k : IsWalk(f, F, S, k) <=>
            f = [s \in S |-> IF s.pos >= k /\ F[s].kind = "Walking" THEN f[next(s)] ELSE F[s]]
  BY DEF IsWalk
<1> HIDE DEF next
<1>1. L \in Reached
  <2> DEFINE f == [s \in S |-> F[s]]
  <2>2. \A s \in S : ~(s.pos >= L /\ F[s].kind = "Walking")
    BY <1>0
  <2>3. f = [s \in S |-> IF s.pos >= L /\ F[s].kind = "Walking" THEN f[next(s)] ELSE F[s]]
    BY <2>2
  <2> HIDE DEF f
  <2> QED BY <2>3, <1>e
<1>2. n \in Reached
  <2>1. Reached \subseteq Nat /\ Reached # {}
    BY <1>1
  <2> HIDE DEF Reached
  <2> QED BY <2>1, LeastProperties
<1>3. \A m \in Reached : n <= m
  <2>1. Reached \subseteq Nat /\ Reached # {}
    BY <1>1
  <2> HIDE DEF Reached
  <2> QED BY <2>1, LeastProperties
<1>4. ASSUME n # 0
      PROVE  FALSE
  <2>1. n \in Nat /\ n - 1 \in Nat /\ n - 1 \notin Reached
    <3> HIDE DEF n
    <3> QED BY <1>2, <1>3, <1>4
  <2>2. PICK f : f = [s \in S |-> IF s.pos >= n /\ F[s].kind = "Walking" THEN f[next(s)] ELSE F[s]]
    <3>1. PICK f : IsWalk(f, F, S, n)
      BY <1>2
    <3> HIDE DEF n
    <3> QED BY <3>1, <1>e
  <2> HIDE DEF n
  <2> DEFINE g == [s \in S |-> IF s.pos >= n - 1 /\ F[s].kind = "Walking" THEN f[next(s)] ELSE F[s]]
  <2>3. \A s \in S : F[s].kind = "Walking" /\ s.pos >= n - 1 => g[next(s)] = f[next(s)]
    <3> SUFFICES ASSUME NEW s \in S, F[s].kind = "Walking", s.pos >= n - 1
                 PROVE  g[next(s)] = f[next(s)]
      OBVIOUS
    <3> DEFINE t == next(s)
    <3>1. t \in S /\ t.pos \in Nat /\ t.pos >= n /\ t.pos >= n - 1
      BY <1>0, <2>1
    <3> HIDE DEF t
    <3>2. f[t] = IF F[t].kind = "Walking" THEN f[next(t)] ELSE F[t]
      BY <2>2, <3>1
    <3>3. g[t] = IF F[t].kind = "Walking" THEN f[next(t)] ELSE F[t]
      BY <3>1
    <3> HIDE DEF g
    <3> QED BY <3>2, <3>3 DEF t
  <2>4. g = [s \in S |-> IF s.pos >= n - 1 /\ F[s].kind = "Walking" THEN g[next(s)] ELSE F[s]]
    <3> DEFINE h == [s \in S |-> IF s.pos >= n - 1 /\ F[s].kind = "Walking" THEN g[next(s)] ELSE F[s]]
    <3>1. \A s \in S : g[s] = IF s.pos >= n - 1 /\ F[s].kind = "Walking" THEN f[next(s)] ELSE F[s]
      OBVIOUS
    <3>2. g = [s \in S |-> g[s]]
      OBVIOUS
    <3> HIDE DEF g
    <3>3. \A s \in S : h[s] = g[s]
      BY <2>3, <3>1
    <3> QED BY <3>2, <3>3
  <2> HIDE DEF g
  <2>5. IsWalk(g, F, S, n - 1)
    BY <2>4, <1>e
  <2> QED BY <2>1, <2>5
<1> QED BY <1>2, <1>4

\* Such a walk comes to what one of its turns stops with: the turns left are at
\* most the bytes left.
LEMMA WalkEnds ==
  ASSUME NEW F, NEW S, NEW L \in Nat,
         \A s \in S : s.pos \in Nat,
         \A s \in S : F[s].kind = "Walking" =>
           /\ s.pos < F[s].after /\ F[s].after <= L
           /\ [pos |-> F[s].after, data_len |-> F[s].data_len] \in S
  PROVE  \A f : IsWalk(f, F, S, 0) =>
           \A s \in S : \E t \in S : f[s] = F[t] /\ F[t].kind # "Walking"
<1> SUFFICES ASSUME NEW f, IsWalk(f, F, S, 0)
             PROVE  \A s \in S : \E t \in S : f[s] = F[t] /\ F[t].kind # "Walking"
  OBVIOUS
<1> DEFINE Stops(s) == \E t \in S : f[s] = F[t] /\ F[t].kind # "Walking"
           next(s) == [pos |-> F[s].after, data_len |-> F[s].data_len]
           Left == {k \in Nat : \E s \in S : ~Stops(s) /\ s.pos + k >= L}
           k == Least(Left)
<1>0. \A s \in S : F[s].kind = "Walking" =>
         next(s) \in S /\ next(s).pos = F[s].after /\ s.pos < next(s).pos /\ next(s).pos <= L
  OBVIOUS
<1>1. f = [s \in S |-> IF F[s].kind = "Walking" THEN f[next(s)] ELSE F[s]]
  <2>1. f = [s \in S |-> IF s.pos >= 0 /\ F[s].kind = "Walking" THEN f[next(s)] ELSE F[s]]
    BY DEF IsWalk
  <2>2. \A s \in S : s.pos >= 0
    OBVIOUS
  <2> HIDE DEF next
  <2> QED BY <2>1, <2>2
<1> HIDE DEF next
<1>2. \A s \in S : ~Stops(s) => F[s].kind = "Walking" /\ ~Stops(next(s))
  BY <1>0, <1>1
<1> HIDE DEF Stops
<1>3. ASSUME NEW s \in S, ~Stops(s)
      PROVE  FALSE
  <2>1. L \in Left
    BY <1>3
  <2>2. k \in Left /\ \A m \in Left : k <= m
    <3>1. Left \subseteq Nat /\ Left # {}
      BY <2>1
    <3> HIDE DEF Left
    <3> QED BY <3>1, LeastProperties
  <2>3. PICK r \in S : ~Stops(r) /\ r.pos + k >= L
    BY <2>2
  <2>4. next(r) \in S /\ ~Stops(next(r)) /\ next(r).pos <= L /\ next(r).pos > r.pos
    BY <1>0, <1>2, <2>3
  <2>5. k \in Nat /\ k # 0
    <3>1. k \in Nat
      BY <2>2
    <3> HIDE DEF k
    <3> QED BY <2>3, <2>4, <3>1
  <2>6. k - 1 \in Left
    <3>1. next(r).pos + (k - 1) >= L /\ k - 1 \in Nat
      <4> HIDE DEF k
      <4> QED BY <2>3, <2>4, <2>5
    <3> HIDE DEF k
    <3> QED BY <2>4, <3>1
  <2> HIDE DEF k, Left
  <2> QED BY <2>2, <2>5, <2>6
<1> QED BY <1>3 DEF Stops

\* Turns of walk, from any field on, come to an end.
LEMMA WalkCases ==
  ASSUME NEW b \in Seq(Byte), Len(b) >= 1, At(b, 0) = 56, NEW at_end \in BOOLEAN,
         NEW separator \in Byte, NEW override \in Byte \cup {None}
  PROVE  EndResult(b, at_end, walk(b, separator, override, at_end))
<1> DEFINE S == [pos : Nat, data_len : Nat \cup {None}]
           stop(s) == WalkStop(b, s.pos, s.data_len, separator, override, at_end)
           F == [s \in S |-> stop(s)]
           Turns(f) == [turn \in S |-> IF stop(turn).kind = "Walking"
                                         THEN f[[pos |-> stop(turn).after,
                                                 data_len |-> stop(turn).data_len]]
                                         ELSE stop(turn)]
           from == CHOOSE f : f = Turns(f)
           first == [pos |-> 0, data_len |-> None]
           L == Len(Capped(b, at_end))
<1>1. walk(b, separator, override, at_end) = from[first]
  BY Zenon DEF walk
<1>2. L \in Nat
  BY CappedProperties
<1>3. \A s \in S : s.pos \in Nat /\ s.data_len \in Nat \cup {None}
  OBVIOUS
<1>4. \A s \in S : StopResult(b, Capped(b, at_end), s.pos, at_end, stop(s))
  <2> HIDE DEF S
  <2> QED BY <1>3, WalkStopCases
<1>5. \A s \in S : F[s] = stop(s)
  <2> HIDE DEF S, stop
  <2> QED OBVIOUS
<1>6. \A s \in S : F[s].kind = "Walking" =>
        /\ s.pos < F[s].after /\ F[s].after <= L
        /\ F[s].after \in Nat /\ F[s].data_len \in Nat \cup {None}
  <2> SUFFICES ASSUME NEW s \in S, F[s].kind = "Walking"
               PROVE  /\ s.pos < F[s].after /\ F[s].after <= L
                      /\ F[s].after \in Nat /\ F[s].data_len \in Nat \cup {None}
    OBVIOUS
  <2> DEFINE x == stop(s)
  <2>1. F[s] = x /\ StopResult(b, Capped(b, at_end), s.pos, at_end, x)
    BY <1>4, <1>5
  <2> HIDE DEF x, F, L
  <2>2. x.kind = "Walking"
    BY <2>1
  <2>3. ~EndResult(b, at_end, x)
    BY <2>2 DEF EndResult, EndOK, WaitOK, Waiting
  <2> QED BY <2>1, <2>2, <2>3 DEF StopResult, L
<1>7. \A s \in S : F[s].kind = "Walking" =>
        /\ s.pos < F[s].after /\ F[s].after <= L
        /\ [pos |-> F[s].after, data_len |-> F[s].data_len] \in S
  <2>1. \A a \in Nat, d \in Nat \cup {None} : [pos |-> a, data_len |-> d] \in S
    OBVIOUS
  <2> HIDE DEF F, S
  <2> SUFFICES ASSUME NEW s \in S, F[s].kind = "Walking"
               PROVE  /\ s.pos < F[s].after /\ F[s].after <= L
                      /\ [pos |-> F[s].after, data_len |-> F[s].data_len] \in S
    OBVIOUS
  <2>2. /\ s.pos < F[s].after /\ F[s].after <= L
        /\ F[s].after \in Nat /\ F[s].data_len \in Nat \cup {None}
    BY <1>6
  <2>3. [pos |-> F[s].after, data_len |-> F[s].data_len] \in S
    BY <2>1, <2>2
  <2> QED BY <2>2, <2>3
<1> HIDE DEF stop, L
<1>8. \A f : IsWalk(f, F, S, 0) <=> f = Turns(f)
  <2> SUFFICES ASSUME NEW f
               PROVE  IsWalk(f, F, S, 0) <=> f = Turns(f)
    OBVIOUS
  <2> DEFINE g == [s \in S |-> IF s.pos >= 0 /\ F[s].kind = "Walking"
                                 THEN f[[pos |-> F[s].after, data_len |-> F[s].data_len]]
                               ELSE F[s]]
  <2>1. \A s \in S : s.pos >= 0
    BY <1>3
  <2>2. g = Turns(f)
    <3> HIDE DEF S, F
    <3> QED BY <1>5, <2>1
  <2> HIDE DEF Turns, F, S
  <2> QED BY <2>2 DEF IsWalk
<1> HIDE DEF F, S
<1>9. \E f : IsWalk(f, F, S, 0)
  <2>1. \A s \in S : s.pos \in Nat
    BY <1>3
  <2> QED BY <1>2, <1>7, <2>1, WalkExists
<1>10. IsWalk(from, F, S, 0)
  <2> HIDE DEF Turns
  <2>1. \E f : f = Turns(f)
    BY <1>8, <1>9
  <2>2. from = Turns(from)
    BY <2>1
  <2> QED BY <1>8, <2>2
<1> HIDE DEF from
<1>11. \A s \in S : \E t \in S : from[s] = F[t] /\ F[t].kind # "Walking"
  <2>1. \A s \in S : s.pos \in Nat
    BY <1>3
  <2>2. \A f : IsWalk(f, F, S, 0) =>
          \A s \in S : \E t \in S : f[s] = F[t] /\ F[t].kind # "Walking"
    BY <1>2, <1>7, <2>1, WalkEnds, SMTT(30)
  <2> QED BY <1>10, <2>2
<1>12. first \in S
  BY DEF S
<1> HIDE DEF first
<1>13. PICK t \in S : from[first] = F[t] /\ F[t].kind # "Walking"
  BY <1>11, <1>12
<1>14. EndResult(b, at_end, F[t])
  <2>1. StopResult(b, Capped(b, at_end), t.pos, at_end, F[t])
    BY <1>4, <1>5
  <2> QED BY <1>13, <2>1 DEF StopResult
<1> QED BY <1>1, <1>13, <1>14

\* Where the message at the front of any bytes ends, or that it is waited for.
LEMMA FindEndCases ==
  ASSUME NEW b \in Seq(Byte), Len(b) >= 1, At(b, 0) = 56, NEW at_end \in BOOLEAN,
         NEW separator \in Byte, NEW override \in Byte \cup {None}
  PROVE  EndResult(b, at_end, find_end(b, separator, override, at_end))
<1> DEFINE by_length == by_body_length(b, separator, at_end)
           x == find_end(b, separator, override, at_end)
<1>1. x = IF by_length.kind = "NotFound" THEN walk(b, separator, override, at_end)
          ELSE by_length
  BY Zenon DEF find_end
<1>2. by_length = NoEnd \/ EndResult(b, at_end, by_length)
  BY ByBodyLength
<1>3. EndResult(b, at_end, walk(b, separator, override, at_end))
  BY WalkCases
<1> HIDE DEF by_length, x
<1>4. EndResult(b, at_end, x)
  <2>1. CASE by_length.kind = "NotFound"
    BY <1>1, <1>3, <2>1
  <2>2. CASE by_length.kind # "NotFound"
    BY <1>1, <1>2, <2>2 DEF NoEnd
  <2> QED BY <2>1, <2>2
<1> QED BY <1>4 DEF x

-----------------------------------------------------------------------------
(* The copy of a message logged with "^A". *)

\* The function that Restored evaluates: f[k] is the text of the first k bytes.
TextStep(line, k, text) ==
  IF k - 1 \notin Kept(line) THEN text
  ELSE Append(text, IF k - 1 \in Carets(line) THEN SOH ELSE At(line, k - 1))

IsText(f, line, n) ==
  f = [k \in 0 .. n |-> IF k = 0 THEN <<>> ELSE TextStep(line, k, f[k - 1])]

LEMMA TextExists ==
  ASSUME NEW line, NEW N \in Nat
  PROVE  \E f : IsText(f, line, N)
<1> DEFINE T == {n \in Nat : ~\E f : IsText(f, line, n)}
<1> SUFFICES T = {}
  OBVIOUS
<1>1. ASSUME T # {} PROVE FALSE
  <2>1. PICK n \in T : \A m \in T : n <= m
    <3>1. T \subseteq Nat
      OBVIOUS
    <3> HIDE DEF T
    <3> QED BY <1>1, <3>1, LeastProperties
  <2>2. n \in Nat /\ ~\E f : IsText(f, line, n)
    OBVIOUS
  <2>3. n # 0
    <3> DEFINE g == [k \in 0 .. 0 |-> <<>>]
    <3>1. IsText(g, line, 0)
      BY DEF IsText
    <3> QED BY <2>2, <3>1
  <2>4. n - 1 \in Nat /\ n - 1 \notin T
    BY <2>1, <2>2, <2>3
  <2>5. PICK f : IsText(f, line, n - 1)
    BY <2>4
  <2> DEFINE g == [k \in 0 .. n |-> IF k = n THEN TextStep(line, n, f[n - 1]) ELSE f[k]]
  <2>6. \A k \in 0 .. n : g[k] = IF k = 0 THEN <<>> ELSE TextStep(line, k, g[k - 1])
    <3> TAKE k \in 0 .. n
    <3>1. CASE k = n
      <4>1. g[n] = TextStep(line, n, f[n - 1])
        BY <2>2
      <4>2. g[n - 1] = f[n - 1]
        BY <2>2, <2>3
      <4> QED BY <3>1, <4>1, <4>2, <2>3
    <3>2. CASE k # n
      <4>1. k \in 0 .. n - 1 /\ g[k] = f[k]
        BY <3>2, <2>2
      <4>2. f[k] = IF k = 0 THEN <<>> ELSE TextStep(line, k, f[k - 1])
        BY <4>1, <2>5 DEF IsText
      <4>3. k # 0 => g[k - 1] = f[k - 1]
        BY <4>1, <2>2
      <4> QED BY <4>1, <4>2, <4>3
    <3> QED BY <3>1, <3>2
  <2>7. IsText(g, line, n)
    BY <2>6 DEF IsText
  <2> QED BY <2>2, <2>7
<1> QED BY <1>1

LEMMA TextEquations ==
  ASSUME NEW line, NEW N \in Nat, NEW f, IsText(f, line, N)
  PROVE  /\ f[0] = <<>>
         /\ \A k \in 1 .. N : f[k] = TextStep(line, k, f[k - 1])
<1>1. \A k \in 0 .. N : f[k] = IF k = 0 THEN <<>> ELSE TextStep(line, k, f[k - 1])
  BY DEF IsText
<1> QED BY <1>1

LEMMA RestoredText ==
  ASSUME NEW line \in Seq(Byte)
  PROVE  \E f : IsText(f, line, Len(line)) /\ Restored(line) = f[Len(line)]
<1> DEFINE text == CHOOSE f : IsText(f, line, Len(line))
<1>1. IsText(text, line, Len(line))
  <2>1. Len(line) \in Nat
    OBVIOUS
  <2> QED BY <2>1, TextExists
<1>2. Restored(line) = text[Len(line)]
  BY DEF Restored, IsText, TextStep
<1> QED BY <1>1, <1>2

\* How many bytes of the copy come from the first n of the line.
KeptBefore(line, n) == Cardinality({i \in Kept(line) : i < n})

LEMMA KeptBeforeSteps ==
  ASSUME NEW line \in Seq(Byte), NEW n \in Nat
  PROVE  /\ KeptBefore(line, n) \in Nat /\ KeptBefore(line, 0) = 0
         /\ KeptBefore(line, n + 1) = KeptBefore(line, n) + (IF n \in Kept(line) THEN 1 ELSE 0)
<1> DEFINE K(m) == {i \in Kept(line) : i < m}
<1>0. \A i \in Kept(line) : i \in Nat
  BY DEF Kept
<1>1. IsFiniteSet(K(n))
  <2>1. K(n) \subseteq 0 .. n
    BY <1>0
  <2>2. IsFiniteSet(0 .. n)
    BY FS_Interval
  <2> HIDE DEF K
  <2> QED BY <2>1, <2>2, FS_Subset
<1>2. K(0) = {}
  BY <1>0
<1>3. K(n + 1) = IF n \in Kept(line) THEN K(n) \cup {n} ELSE K(n)
  BY <1>0
<1>4. n \notin K(n)
  OBVIOUS
<1>5. Cardinality(K(n)) \in Nat /\ Cardinality(K(n) \cup {n}) = Cardinality(K(n)) + 1
  <2> HIDE DEF K
  <2> QED BY <1>1, <1>4, FS_AddElement, FS_CardinalityType
<1>6. \A m : KeptBefore(line, m) = Cardinality(K(m))
  BY DEF KeptBefore
<1> HIDE DEF K
<1>7. Cardinality(K(n + 1)) = Cardinality(K(n)) + (IF n \in Kept(line) THEN 1 ELSE 0)
  BY <1>3, <1>5
<1> QED BY <1>2, <1>5, <1>6, <1>7, FS_EmptySet

LEMMA TextType ==
  ASSUME NEW line \in Seq(Byte), NEW f, IsText(f, line, Len(line))
  PROVE  \A n \in 0 .. Len(line) : f[n] \in Seq(Byte) /\ Len(f[n]) = KeptBefore(line, n)
<1> DEFINE N == Len(line)
           Right(n) == f[n] \in Seq(Byte) /\ Len(f[n]) = KeptBefore(line, n)
           T == {n \in 0 .. N : ~Right(n)}
           n == Least(T)
<1>0. N \in Nat
  OBVIOUS
<1>1. f[0] = <<>> /\ \A k \in 1 .. N : f[k] = TextStep(line, k, f[k - 1])
  BY <1>0, TextEquations
<1>2. ASSUME T # {}
      PROVE  FALSE
  <2>1. n \in T /\ \A m \in T : n <= m
    <3>1. T \subseteq Nat
      BY <1>0
    <3> HIDE DEF T
    <3> QED BY <1>2, <3>1, LeastProperties
  <2>2. n \in 0 .. N /\ ~Right(n)
    <3>1. \A k \in T : k \in 0 .. N /\ ~Right(k)
      OBVIOUS
    <3> HIDE DEF T, n, Right
    <3> QED BY <2>1, <3>1
  <2>3. \A m \in 0 .. N : m < n => Right(m)
    <3>1. \A m \in 0 .. N : ~Right(m) => m \in T
      OBVIOUS
    <3>2. n \in Int
      BY <1>0, <2>2
    <3> HIDE DEF T, n, Right
    <3> QED BY <1>0, <2>1, <3>1, <3>2
  <2> HIDE DEF n
  <2>4. n # 0
    <3>1. Right(0)
      BY <1>1, KeptBeforeSteps
    <3> HIDE DEF Right
    <3> QED BY <2>2, <3>1
  <2>5. n - 1 \in 0 .. N - 1 /\ n \in 1 .. N /\ n - 1 < n /\ (n - 1) + 1 = n
    BY <1>0, <2>2, <2>4
  <2> DEFINE t == f[n - 1]
             byte == IF n - 1 \in Carets(line) THEN SOH ELSE At(line, n - 1)
  <2>6. t \in Seq(Byte) /\ Len(t) = KeptBefore(line, n - 1)
    BY <2>3, <2>5
  <2>7. f[n] = IF n - 1 \notin Kept(line) THEN t ELSE Append(t, byte)
    <3>1. f[n] = TextStep(line, n, t)
      BY <1>1, <2>5
    <3> QED BY <3>1, Zenon DEF TextStep
  <2>8. byte \in Byte
    <3>1. SOH \in Byte
      BY DEF SOH, Byte
    <3>2. At(line, n - 1) \in Byte
      <4>1. line[n] \in Byte
        BY <2>5, ElementOfSeq
      <4> QED BY <2>5, <4>1 DEF At
    <3> QED BY <3>1, <3>2
  <2>9. KeptBefore(line, n) = KeptBefore(line, n - 1)
                                + (IF n - 1 \in Kept(line) THEN 1 ELSE 0)
    <3>1. n - 1 \in Nat
      BY <2>5
    <3>2. KeptBefore(line, (n - 1) + 1) = KeptBefore(line, n - 1)
                                + (IF n - 1 \in Kept(line) THEN 1 ELSE 0)
      BY <3>1, KeptBeforeSteps
    <3> QED BY <2>5, <3>2
  <2> HIDE DEF t, byte
  <2>10. Append(t, byte) \in Seq(Byte) /\ Len(Append(t, byte)) = Len(t) + 1
    BY <2>6, <2>8, AppendProperties
  <2>11. Right(n)
    <3>1. KeptBefore(line, n - 1) \in Nat
      BY <2>6
    <3> QED BY <2>6, <2>7, <2>9, <2>10, <3>1
  <2> QED BY <2>2, <2>11
<1> HIDE DEF Right
<1>3. \A k \in 0 .. N : Right(k)
  BY <1>2
<1> QED BY <1>3 DEF Right

\* The text of the first m bytes begins that of the first n.
LEMMA TextGrows ==
  ASSUME NEW line \in Seq(Byte), NEW f, IsText(f, line, Len(line)),
         NEW m \in 0 .. Len(line)
  PROVE  \A n \in m .. Len(line) : /\ Len(f[m]) <= Len(f[n])
                                   /\ \A i \in 1 .. Len(f[m]) : f[n][i] = f[m][i]
<1> DEFINE N == Len(line)
           Right(n) == /\ Len(f[m]) <= Len(f[n])
                       /\ \A i \in 1 .. Len(f[m]) : f[n][i] = f[m][i]
           T == {n \in m .. N : ~Right(n)}
           n == Least(T)
<1>0. N \in Nat
  OBVIOUS
<1>1. \A k \in 1 .. N : f[k] = TextStep(line, k, f[k - 1])
  BY <1>0, TextEquations
<1>2. \A k \in 0 .. N : f[k] \in Seq(Byte) /\ Len(f[k]) \in Nat
  <2>1. \A k \in 0 .. N : f[k] \in Seq(Byte)
    BY TextType
  <2> QED BY <2>1
<1>3. ASSUME T # {}
      PROVE  FALSE
  <2>1. n \in T /\ \A k \in T : n <= k
    <3>1. T \subseteq Nat
      BY <1>0
    <3> HIDE DEF T
    <3> QED BY <1>3, <3>1, LeastProperties
  <2>2. n \in m .. N /\ ~Right(n)
    <3>1. \A k \in T : k \in m .. N /\ ~Right(k)
      OBVIOUS
    <3> HIDE DEF T, n, Right
    <3> QED BY <2>1, <3>1
  <2>3. \A k \in m .. N : k < n => Right(k)
    <3>1. \A k \in m .. N : ~Right(k) => k \in T
      OBVIOUS
    <3>2. n \in Int
      BY <1>0, <2>2
    <3> HIDE DEF T, n, Right
    <3> QED BY <1>0, <2>1, <3>1, <3>2
  <2> HIDE DEF n
  <2>4. n # m
    <3>1. Right(m)
      BY <1>2
    <3> HIDE DEF Right
    <3> QED BY <2>2, <3>1
  <2>5. n - 1 \in m .. N /\ n \in 1 .. N /\ n - 1 < n /\ n - 1 \in 0 .. N
    BY <1>0, <2>2, <2>4
  <2> DEFINE s == f[m]
             t == f[n - 1]
             byte == IF n - 1 \in Carets(line) THEN SOH ELSE At(line, n - 1)
  <2>6. Len(s) <= Len(t) /\ \A i \in 1 .. Len(s) : t[i] = s[i]
    BY <2>3, <2>5
  <2>7. t \in Seq(Byte) /\ Len(t) \in Nat /\ s \in Seq(Byte) /\ Len(s) \in Nat
    BY <1>2, <2>5
  <2>8. f[n] = IF n - 1 \notin Kept(line) THEN t ELSE Append(t, byte)
    <3>1. f[n] = TextStep(line, n, t)
      BY <1>1, <2>5
    <3> QED BY <3>1, Zenon DEF TextStep
  <2> HIDE DEF s, t, byte
  <2>9. ASSUME NEW u \in {t, Append(t, byte)}
        PROVE  Len(s) <= Len(u) /\ \A i \in 1 .. Len(s) : u[i] = s[i]
    <3>1. CASE u = t
      BY <2>6, <3>1
    <3>2. CASE u = Append(t, byte)
      <4>1. Len(u) = Len(t) + 1 /\ \A i \in 1 .. Len(t) : u[i] = t[i]
        BY <2>7, <3>2
      <4> QED BY <2>6, <2>7, <4>1
    <3> QED BY <3>1, <3>2
  <2>10. f[n] \in {t, Append(t, byte)}
    BY <2>8
  <2>11. Len(s) <= Len(f[n]) /\ \A i \in 1 .. Len(s) : f[n][i] = s[i]
    BY <2>9, <2>10
  <2>12. Right(n)
    BY <2>11 DEF s
  <2> QED BY <2>2, <2>12
<1> HIDE DEF Right
<1>4. \A k \in m .. N : Right(k)
  BY <1>3
<1> QED BY <1>4 DEF Right

\* The first n bytes of the line have the text they have by themselves, when
\* they end before a byte that is kept.
LEMMA TextOfPrefix ==
  ASSUME NEW line \in Seq(Byte), NEW f, IsText(f, line, Len(line)),
         NEW at \in Kept(line) \cup {Len(line)}
  PROVE  Restored(Slice(line, 0, at)) = f[at]
<1> DEFINE N == Len(line)
           p == Slice(line, 0, at)
<1>0. N \in Nat /\ at \in Nat /\ at <= N
  BY DEF Kept
<1>1. p \in Seq(Byte) /\ Len(p) = at /\ \A i \in 0 .. at - 1 : At(p, i) = At(line, i)
  <2>1. /\ p \in Seq(Byte) /\ Len(p) = at - 0
        /\ \A i \in 1 .. at - 0 : p[i] = line[0 + i]
    <3>1. 0 \in Nat /\ 0 <= at
      BY <1>0
    <3> QED BY <1>0, <3>1, ByteSlices, Zenon
  <2> HIDE DEF p
  <2> QED BY <1>0, <2>1 DEF At
<1>2. \A i \in 0 .. at - 1 : i \in Carets(p) <=> i \in Carets(line)
  <2> SUFFICES ASSUME NEW i \in 0 .. at - 1
               PROVE  i \in Carets(p) <=> i \in Carets(line)
    OBVIOUS
  <2>1. CASE i + 1 \in 0 .. at - 1
    <3> HIDE DEF p
    <3> QED BY <1>0, <1>1, <2>1 DEF Carets
  <2>2. CASE i + 1 \notin 0 .. at - 1
    <3>1. i + 1 = at /\ i = at - 1
      BY <1>0, <2>2
    <3>2. i \notin Carets(line)
      <4>1. CASE at = N
        BY <1>0, <3>1, <4>1 DEF Carets
      <4>2. CASE at \in Kept(line)
        BY <3>1, <4>2 DEF Kept
      <4> QED BY <4>1, <4>2
    <3>3. i \notin Carets(p)
      <4> HIDE DEF p
      <4> QED BY <1>0, <1>1, <3>1 DEF Carets
    <3> QED BY <3>2, <3>3
  <2> QED BY <2>1, <2>2
<1>3. \A i \in 0 .. at - 1 : i \in Kept(p) <=> i \in Kept(line)
  <2> SUFFICES ASSUME NEW i \in 0 .. at - 1
               PROVE  i \in Kept(p) <=> i \in Kept(line)
    OBVIOUS
  <2>1. i \in 0 .. Len(p) - 1 /\ i \in 0 .. N - 1
    <3> HIDE DEF p
    <3> QED BY <1>0, <1>1
  <2>2. i - 1 \in Carets(p) <=> i - 1 \in Carets(line)
    <3>1. CASE i = 0
      BY <3>1 DEF Carets
    <3>2. CASE i # 0
      <4>1. i - 1 \in 0 .. at - 1
        BY <1>0, <3>2
      <4> QED BY <1>2, <4>1
    <3> QED BY <3>1, <3>2
  <2> HIDE DEF p
  <2> QED BY <2>1, <2>2 DEF Kept
<1>4. PICK g : IsText(g, p, at) /\ Restored(p) = g[at]
  <2> HIDE DEF p
  <2> QED BY <1>1, RestoredText
<1>5. g[0] = <<>> /\ \A k \in 1 .. at : g[k] = TextStep(p, k, g[k - 1])
  BY <1>0, <1>4, TextEquations
<1>6. f[0] = <<>> /\ \A k \in 1 .. N : f[k] = TextStep(line, k, f[k - 1])
  BY <1>0, TextEquations
<1>7. \A k \in 1 .. at : \A t : TextStep(p, k, t) = TextStep(line, k, t)
  <2> HIDE DEF p
  <2> SUFFICES ASSUME NEW k \in 1 .. at, NEW t
               PROVE  TextStep(p, k, t) = TextStep(line, k, t)
    OBVIOUS
  <2>1. k - 1 \in 0 .. at - 1
    BY <1>0
  <2> QED BY <1>1, <1>2, <1>3, <2>1 DEF TextStep
<1> HIDE DEF p
<1> DEFINE T == {k \in 0 .. at : g[k] # f[k]}
           k == Least(T)
<1>8. ASSUME T # {}
      PROVE  FALSE
  <2>1. k \in T /\ \A m \in T : k <= m
    <3>1. T \subseteq Nat
      BY <1>0
    <3> HIDE DEF T
    <3> QED BY <1>8, <3>1, LeastProperties
  <2>2. \A m \in 0 .. at : m \in T <=> g[m] # f[m]
    OBVIOUS
  <2>3. k \in 0 .. at
    BY <2>1
  <2> HIDE DEF T, k
  <2>4. k # 0
    BY <1>5, <1>6, <2>1, <2>2, <2>3
  <2>5. k - 1 \in 0 .. at /\ k \in 1 .. at /\ k \in 1 .. N
    BY <1>0, <2>3, <2>4
  <2>6. ~(k <= k - 1)
    BY <2>3
  <2>7. g[k - 1] = f[k - 1]
    BY <2>1, <2>2, <2>5, <2>6
  <2>8. g[k] = f[k]
    BY <1>5, <1>6, <1>7, <2>5, <2>7
  <2> QED BY <2>1, <2>2, <2>3, <2>8
<1>9. g[at] = f[at]
  <2>1. at \in 0 .. at
    BY <1>0
  <2> QED BY <1>8, <2>1
<1> QED BY <1>4, <1>9 DEF p

\* A length of the copy is one of the line, up to a byte that is kept.
LEMMA OriginalOffset ==
  ASSUME NEW line \in Seq(Byte), NEW e \in 1 .. KeptBefore(line, Len(line))
  PROVE  /\ original_offset(line, e) \in Kept(line) \cup {Len(line)}
         /\ KeptBefore(line, original_offset(line, e)) = e
<1> DEFINE N == Len(line)
           T == {n \in 0 .. N : KeptBefore(line, n) > e}
           n == Least(T)
<1>0. N \in Nat /\ e \in Nat /\ e >= 1
  <2>1. KeptBefore(line, N) \in Nat
    BY KeptBeforeSteps
  <2> QED BY <2>1
<1>1. \E at \in Kept(line) \cup {N} : KeptBefore(line, at) = e
  <2>1. CASE T = {}
    <3>1. KeptBefore(line, N) \in Nat /\ N \in 0 .. N
      BY <1>0, KeptBeforeSteps
    <3>2. ~(KeptBefore(line, N) > e)
      BY <2>1, <3>1
    <3>3. KeptBefore(line, N) = e
      BY <1>0, <3>1, <3>2
    <3> QED BY <3>3
  <2>2. CASE T # {}
    <3>1. n \in T /\ \A m \in T : n <= m
      <4>1. T \subseteq Nat
        BY <1>0
      <4> HIDE DEF T
      <4> QED BY <2>2, <4>1, LeastProperties
    <3>2. \A m \in 0 .. N : m \in T <=> KeptBefore(line, m) > e
      OBVIOUS
    <3>3. n \in 0 .. N
      BY <3>1
    <3> HIDE DEF T, n
    <3>4. KeptBefore(line, n) > e
      BY <3>1, <3>2, <3>3
    <3>5. n # 0
      BY <1>0, <3>4, KeptBeforeSteps
    <3>6. n - 1 \in 0 .. N /\ n - 1 \in Nat /\ (n - 1) + 1 = n /\ ~(n <= n - 1)
      BY <1>0, <3>3, <3>5
    <3>7. ~(KeptBefore(line, n - 1) > e)
      BY <3>1, <3>2, <3>6
    <3>8. /\ KeptBefore(line, n - 1) \in Nat
          /\ KeptBefore(line, (n - 1) + 1)
               = KeptBefore(line, n - 1) + (IF n - 1 \in Kept(line) THEN 1 ELSE 0)
      BY <3>6, KeptBeforeSteps
    <3>9. KeptBefore(line, n - 1) = e /\ n - 1 \in Kept(line)
      <4>1. KeptBefore(line, n)
              = KeptBefore(line, n - 1) + (IF n - 1 \in Kept(line) THEN 1 ELSE 0)
        BY <3>6, <3>8
      <4> QED BY <1>0, <3>4, <3>7, <3>8, <4>1
    <3> QED BY <3>9
  <2> QED BY <2>1, <2>2
<1>2. original_offset(line, e)
        = CHOOSE at \in Kept(line) \cup {N} : KeptBefore(line, at) = e
  BY DEF original_offset, KeptBefore
<1> QED BY <1>1, <1>2

\* The copy of a line that starts a message starts one.
LEMMA RestoredStarts ==
  ASSUME NEW line \in Seq(Byte), Len(line) >= 1, At(line, 0) = 56
  PROVE  /\ Restored(line) \in Seq(Byte) /\ Len(Restored(line)) = KeptBefore(line, Len(line))
         /\ Len(Restored(line)) >= 1 /\ At(Restored(line), 0) = 56
<1> DEFINE N == Len(line)
<1>0. N \in Nat /\ N >= 1
  OBVIOUS
<1>1. PICK f : IsText(f, line, N) /\ Restored(line) = f[N]
  BY RestoredText
<1>2. \A n \in 0 .. N : f[n] \in Seq(Byte) /\ Len(f[n]) = KeptBefore(line, n)
  BY <1>1, TextType
<1>3. f[1] = <<56>>
  <2>1. f[0] = <<>> /\ f[1] = TextStep(line, 1, f[0])
    <3>1. f[0] = <<>> /\ \A k \in 1 .. N : f[k] = TextStep(line, k, f[k - 1])
      BY <1>0, <1>1, TextEquations
    <3>2. 1 \in 1 .. N /\ 1 - 1 = 0
      BY <1>0
    <3> QED BY <3>1, <3>2
  <2>2. 0 \in Kept(line) /\ 0 \notin Carets(line) /\ 1 - 1 = 0
    BY <1>0 DEF Kept, Carets, CARET
  <2>3. TextStep(line, 1, <<>>) = Append(<<>>, 56)
    BY <2>2 DEF TextStep
  <2> QED BY <2>1, <2>3
<1>4. Len(f[1]) <= Len(f[N]) /\ \A i \in 1 .. Len(f[1]) : f[N][i] = f[1][i]
  <2>1. \A n \in 1 .. N : /\ Len(f[1]) <= Len(f[n])
                          /\ \A i \in 1 .. Len(f[1]) : f[n][i] = f[1][i]
    <3>1. 1 \in 0 .. N
      BY <1>0
    <3> QED BY <1>1, <3>1, TextGrows
  <2> QED BY <1>0, <2>1
<1>5. Len(f[N]) >= 1 /\ f[N][1] = 56
  BY <1>3, <1>4
<1> QED BY <1>0, <1>1, <1>2, <1>5 DEF At

\* The line taken for a message: its end, or it is waited for.
LEMMA CaretLineCases ==
  ASSUME NEW b \in Seq(Byte), Len(b) >= 1, At(b, 0) = 56, NEW at_end \in BOOLEAN
  PROVE  EndResult(b, at_end, CaretLine(b, at_end))
<1> DEFINE n == Lesser(Len(b), MAX_MESSAGE_LEN)
           c == Slice(b, 0, n)
           breaks == Positions(c, 0, Len(c), LF)
           at == Least(breaks)
           x == CaretLine(b, at_end)
<1>0. n \in 1 .. Len(b) /\ n <= MAX_MESSAGE_LEN /\ (n # MAX_MESSAGE_LEN => n = Len(b))
  BY Limits DEF Lesser
<1>1. c \in Seq(Byte) /\ Len(c) = n /\ \A i \in 0 .. n - 1 : At(c, i) = At(b, i)
  <2>1. c \in Seq(Byte) /\ Len(c) = n - 0 /\ \A i \in 1 .. n - 0 : c[i] = b[0 + i]
    <3>1. 0 \in Nat /\ n \in Nat /\ 0 <= n /\ n <= Len(b)
      BY <1>0
    <3> HIDE DEF n
    <3> QED BY <3>1, ByteSlices, ZenonT(40)
  <2> HIDE DEF c, n
  <2> QED BY <1>0, <2>1 DEF At
<1>2. x = IF breaks # {}
            THEN End(IF at > 0 /\ At(c, at - 1) = CR THEN at - 1 ELSE at, at + 1, FALSE)
          ELSE IF at_end \/ Len(c) = MAX_MESSAGE_LEN THEN End(Len(c), Len(c), FALSE)
          ELSE Waiting
  BY Zenon DEF CaretLine
<1> HIDE DEF c, x
<1>3. CappedOf(b, c)
  <2> HIDE DEF n
  <2> QED BY <1>0, <1>1 DEF CappedOf
<1>4. breaks # {} => at \in 1 .. Len(c) - 1 /\ At(c, at) = LF
  <2>1. \A i \in Nat, k \in Int :
          Positions(c, i, k, LF) # {} =>
            /\ Least(Positions(c, i, k, LF)) \in i .. k - 1
            /\ At(c, Least(Positions(c, i, k, LF))) = LF
            /\ \A m \in i .. Least(Positions(c, i, k, LF)) - 1 : At(c, m) # LF
    BY FirstPosition
  <2>2. 0 \in Nat /\ Len(c) \in Int
    BY <1>1
  <2>3. breaks # {} => at \in 0 .. Len(c) - 1 /\ At(c, at) = LF
    BY <2>1, <2>2, Zenon
  <2>4. At(c, 0) = 56
    <3> HIDE DEF n
    <3> QED BY <1>0, <1>1
  <2> HIDE DEF at, breaks
  <2> QED BY <2>2, <2>3, <2>4 DEF LF
<1> HIDE DEF at, breaks, n
<1>5. CASE breaks # {}
  <2>1. x = at_line_break(c, at, FALSE)
    <3>1. at > 0
      BY <1>4, <1>5
    <3> QED BY <1>2, <1>5, <3>1 DEF at_line_break
  <2>2. EndOK(b, at_line_break(c, at, FALSE))
    BY <1>3, <1>4, <1>5, LineBreakEnd
  <2> QED BY <2>1, <2>2 DEF EndResult, x
<1>6. CASE breaks = {} /\ (at_end \/ Len(c) = MAX_MESSAGE_LEN)
  <2>1. x = End(Len(c), Len(c), FALSE) /\ Len(c) \in 1 .. Len(b)
    BY <1>0, <1>1, <1>2, <1>6
  <2>2. EndOK(b, End(Len(c), Len(c), FALSE))
    BY <2>1, EndAt
  <2> QED BY <2>1, <2>2 DEF EndResult, x
<1>7. CASE breaks = {} /\ ~at_end /\ Len(c) # MAX_MESSAGE_LEN
  <2>1. x = Waiting
    BY <1>2, <1>7
  <2>2. Len(b) <= MAX_MESSAGE_LEN + StartLen
    BY <1>0, <1>1, <1>7, Limits
  <2>3. at_end = FALSE
    BY <1>7
  <2> QED BY <2>1, <2>2, <2>3 DEF EndResult, WaitOK, x
<1> QED BY <1>5, <1>6, <1>7

LEMMA PrefixOfPrefix ==
  ASSUME NEW b \in Seq(Byte), NEW m \in Nat, m <= Len(b), NEW n \in Nat, n <= m
  PROVE  Slice(b, 0, n) = Slice(Slice(b, 0, m), 0, n)
<1> DEFINE s == Slice(b, 0, m)
           t == Slice(s, 0, n)
           u == Slice(b, 0, n)
<1>0. 0 \in Nat /\ 0 <= m /\ 0 <= n /\ n <= Len(b)
  OBVIOUS
<1>1. s \in Seq(Byte) /\ Len(s) = m - 0 /\ \A k \in 1 .. m - 0 : s[k] = b[0 + k]
  BY <1>0, ByteSlices, Zenon
<1>2. u \in Seq(Byte) /\ Len(u) = n - 0 /\ \A k \in 1 .. n - 0 : u[k] = b[0 + k]
  BY <1>0, ByteSlices, Zenon
<1> HIDE DEF s, u
<1>3. n <= Len(s)
  BY <1>1
<1>4. t \in Seq(Byte) /\ Len(t) = n - 0 /\ \A k \in 1 .. n - 0 : t[k] = s[0 + k]
  BY <1>0, <1>1, <1>3, ByteSlices, Zenon
<1> HIDE DEF t
<1>5. \A k \in 1 .. n : t[k] = u[k] /\ Len(t) = n /\ Len(u) = n
  BY <1>1, <1>2, <1>4
<1>6. t = u
  BY <1>1, <1>2, <1>4, <1>5, SeqEqual
<1> QED BY <1>6 DEF s, t, u

\* The end of a message logged with "^A" is one in b, and its text is the copy
\* of what is logged before that end.
LEMMA CopyCases ==
  ASSUME NEW b \in Seq(Byte), Len(b) >= 1, At(b, 0) = 56, NEW at_end \in BOOLEAN
  PROVE  LET x == copy_message(b, at_end)
         IN  /\ EndResult(b, at_end, x)
             /\ x.kind = "End" => /\ x.copy \in Seq(Byte)
                                  /\ x.copy = Restored(Slice(b, 0, x.len))
<1> DEFINE whole == CaretLine(b, at_end)
           line == Slice(b, 0, whole.len)
           copy == Restored(line)
           end == find_end(copy, SOH, None, TRUE)
           at == original_offset(line, end.len)
           x == copy_message(b, at_end)
<1>0. Len(b) \in Nat
  OBVIOUS
<1>1. EndResult(b, at_end, whole)
  BY CaretLineCases
<1>2. x = IF whole.kind = "Waiting" THEN Waiting
          ELSE IF end.kind = "Waiting" THEN Waiting
          ELSE [kind |-> "End", len |-> at, truncated |-> end.truncated,
                consumed |-> IF at = whole.len THEN whole.consumed ELSE at,
                copy |-> Slice(copy, 0, end.len)]
  BY Zenon DEF copy_message, CopyLine, CopiedEnd, EndInLog
<1> HIDE DEF x, whole
<1>3. CASE whole = Waiting
  <2>1. x = Waiting /\ x.kind # "End"
    BY <1>2, <1>3 DEF Waiting
  <2> QED BY <1>1, <1>3, <2>1 DEF x
<1>4. CASE EndOK(b, whole)
  <2>1. /\ whole.kind = "End" /\ whole.len \in Nat /\ whole.consumed \in Nat
        /\ 1 <= whole.len /\ whole.len <= whole.consumed /\ whole.consumed <= Len(b)
        /\ whole.len <= Len(b)
        /\ Slice(b, whole.len, whole.consumed) \in {<<>>, <<LF>>, <<CR, LF>>}
    BY <1>0, <1>4 DEF EndOK
  <2>2. /\ line \in Seq(Byte) /\ Len(line) = whole.len
        /\ \A i \in 1 .. whole.len : line[i] = b[i]
    <3>1. /\ line \in Seq(Byte) /\ Len(line) = whole.len - 0
          /\ \A i \in 1 .. whole.len - 0 : line[i] = b[0 + i]
      <4>1. 0 \in Nat /\ 0 <= whole.len
        BY <2>1
      <4> QED BY <2>1, <4>1, ByteSlices, ZenonT(40)
    <3> HIDE DEF line
    <3> QED BY <1>0, <2>1, <3>1
  <2> HIDE DEF line
  <2>3. Len(line) >= 1 /\ At(line, 0) = 56
    BY <2>1, <2>2 DEF At
  <2>4. copy \in Seq(Byte) /\ Len(copy) = KeptBefore(line, Len(line))
        /\ Len(copy) >= 1 /\ At(copy, 0) = 56
    BY <2>2, <2>3, RestoredStarts
  <2>5. EndOK(copy, end)
    <3>1. SOH \in Byte /\ None \in Byte \cup {None} /\ TRUE \in BOOLEAN
      BY DEF SOH, Byte
    <3> HIDE DEF copy
    <3>2. EndResult(copy, TRUE, end)
      BY <2>4, <3>1, FindEndCases
    <3> HIDE DEF end
    <3> QED BY <3>2 DEF EndResult, WaitOK
  <2> HIDE DEF end
  <2>6. /\ end.kind = "End" /\ end.len \in Nat /\ 1 <= end.len /\ end.len <= Len(copy)
        /\ end.truncated \in BOOLEAN
    <3>1. Len(copy) \in Nat
      BY <2>4
    <3> HIDE DEF copy
    <3> QED BY <2>5, <3>1 DEF EndOK
  <2>7. at \in Kept(line) \cup {Len(line)} /\ KeptBefore(line, at) = end.len
    <3>1. end.len \in 1 .. KeptBefore(line, Len(line))
      BY <2>4, <2>6
    <3> QED BY <2>2, <3>1, OriginalOffset
  <2> HIDE DEF at
  <2>8. at \in Nat /\ at <= Len(line) /\ 1 <= at
    <3>1. at \in Nat /\ at <= Len(line)
      BY <2>1, <2>2, <2>7 DEF Kept
    <3>2. at # 0
      BY <2>2, <2>6, <2>7, KeptBeforeSteps
    <3> QED BY <3>1, <3>2
  <2>9. Slice(copy, 0, end.len) = Restored(Slice(b, 0, at)) /\ Slice(copy, 0, end.len) \in Seq(Byte)
    <3>1. Slice(b, 0, at) = Slice(line, 0, at)
      <4>1. whole.len \in Nat /\ at <= whole.len /\ whole.len <= Len(b)
        BY <2>1, <2>2, <2>8
      <4> QED BY <2>8, <4>1, PrefixOfPrefix, Zenon DEF line
    <3>2. PICK f : IsText(f, line, Len(line)) /\ copy = f[Len(line)]
      BY <2>2, RestoredText
    <3>3. Restored(Slice(line, 0, at)) = f[at]
      BY <2>2, <2>7, <3>2, TextOfPrefix
    <3>4. f[at] \in Seq(Byte) /\ Len(f[at]) = end.len
      <4>1. at \in 0 .. Len(line)
        BY <2>1, <2>2, <2>8
      <4> QED BY <2>2, <2>7, <3>2, <4>1, TextType
    <3>5. \A i \in 1 .. Len(f[at]) : copy[i] = f[at][i]
      <4>1. \A n \in at .. Len(line) : /\ Len(f[at]) <= Len(f[n])
                                       /\ \A i \in 1 .. Len(f[at]) : f[n][i] = f[at][i]
        <5>1. at \in 0 .. Len(line)
          BY <2>1, <2>2, <2>8
        <5> QED BY <2>2, <3>2, <5>1, TextGrows
      <4>2. Len(line) \in at .. Len(line)
        BY <2>1, <2>2, <2>8
      <4> QED BY <3>2, <4>1, <4>2
    <3> DEFINE s == Slice(copy, 0, end.len)
    <3>6. s \in Seq(Byte) /\ Len(s) = end.len /\ \A i \in 1 .. end.len : s[i] = copy[i]
      <4>1. /\ s \in Seq(Byte) /\ Len(s) = end.len - 0
            /\ \A i \in 1 .. end.len - 0 : s[i] = copy[0 + i]
        <5>1. 0 \in Nat /\ 0 <= end.len
          BY <2>6
        <5> HIDE DEF copy
        <5> QED BY <2>4, <2>6, <5>1, ByteSlices, Zenon
      <4> HIDE DEF s, copy
      <4> QED BY <2>6, <4>1
    <3> HIDE DEF s, copy
    <3>7. s = f[at]
      BY <3>4, <3>5, <3>6, SeqEqual
    <3> QED BY <3>1, <3>3, <3>6, <3>7 DEF s
  <2> DEFINE text == Slice(copy, 0, end.len)
             consumed == IF at = whole.len THEN whole.consumed ELSE at
  <2>10. x = [kind |-> "End", len |-> at, truncated |-> end.truncated,
              consumed |-> consumed, copy |-> text]
    BY <1>2, <2>1, <2>6
  <2>11. /\ consumed \in Nat /\ at <= consumed /\ consumed <= Len(b)
         /\ Slice(b, at, consumed) \in {<<>>, <<LF>>, <<CR, LF>>}
    <3>1. CASE at = whole.len
      BY <2>1, <3>1
    <3>2. CASE at # whole.len
      <4>1. at <= Len(b)
        BY <1>0, <2>1, <2>2, <2>8
      <4>2. Slice(b, at, at) = <<>>
        BY <2>8, <4>1, ShortSlices
      <4> QED BY <2>8, <3>2, <4>1, <4>2
    <3> QED BY <3>1, <3>2
  <2>12. text = Restored(Slice(b, 0, at)) /\ text \in Seq(Byte)
    BY <2>9
  <2> HIDE DEF text, consumed
  <2>13. /\ x.kind = "End" /\ x.len = at /\ x.truncated = end.truncated
         /\ x.consumed = consumed /\ x.copy = text
    BY <2>10
  <2>14. EndOK(b, x)
    BY <2>6, <2>8, <2>11, <2>13 DEF EndOK
  <2>15. EndResult(b, at_end, x) /\ x.copy \in Seq(Byte) /\ x.copy = Restored(Slice(b, 0, x.len))
    BY <2>12, <2>13, <2>14 DEF EndResult
  <2> QED BY <2>15 DEF x
<1> QED BY <1>1, <1>3, <1>4 DEF EndResult, WaitOK

\* The message at the front of b, whatever separates its fields.
LEMMA MessageEndCases ==
  ASSUME NEW b \in Seq(Byte), Len(b) >= 1, At(b, 0) = 56, NEW at_end \in BOOLEAN,
         NEW separator \in Byte \cup {CaretA}, NEW override \in Byte \cup {None}
  PROVE  LET x == MessageEnd(b, separator, override, at_end)
             text == MessageText(b, separator, x)
         IN  /\ EndResult(b, at_end, x)
             /\ EndOK(b, x) => /\ text \in Seq(Byte)
                               /\ text \in {Slice(b, 0, x.len), Restored(Slice(b, 0, x.len))}
<1> DEFINE x == MessageEnd(b, separator, override, at_end)
           text == MessageText(b, separator, x)
<1>1. CASE separator = CaretA
  <2>1. x = copy_message(b, at_end)
    BY <1>1 DEF MessageEnd
  <2>2. EndResult(b, at_end, x)
        /\ (x.kind = "End" => x.copy \in Seq(Byte) /\ x.copy = Restored(Slice(b, 0, x.len)))
    BY <2>1, CopyCases
  <2> HIDE DEF x
  <2>3. text = x.copy
    BY <1>1 DEF MessageText
  <2> HIDE DEF text
  <2>4. EndOK(b, x) => x.kind = "End"
    BY DEF EndOK
  <2> QED BY <2>2, <2>3, <2>4 DEF x, text
<1>2. CASE separator # CaretA
  <2>1. x = find_end(b, separator, override, at_end) /\ separator \in Byte
    BY <1>2 DEF MessageEnd
  <2>2. EndResult(b, at_end, x)
    BY <2>1, FindEndCases
  <2> HIDE DEF x
  <2>3. text = Slice(b, 0, x.len)
    BY <1>2 DEF MessageText
  <2> HIDE DEF text
  <2>4. EndOK(b, x) => Slice(b, 0, x.len) \in Seq(Byte)
    <3>1. ASSUME EndOK(b, x)
          PROVE  Slice(b, 0, x.len) \in Seq(Byte)
      <4>1. 0 \in Nat /\ x.len \in Nat /\ 0 <= x.len /\ x.len <= Len(b)
        BY <3>1 DEF EndOK
      <4> QED BY <4>1, ByteSlices, Zenon
    <3> QED BY <3>1
  <2> QED BY <2>2, <2>3, <2>4 DEF x, text
<1> QED BY <1>1, <1>2

-----------------------------------------------------------------------------
(* What is wrong with a message. *)

\* What diagnose can report.
Diagnosis == LogDiagnostic \ {"PrefixTruncated"}

LEMMA WhenType ==
  ASSUME NEW S, NEW c, NEW d \in S
  PROVE  When(c, d) \in Seq(S)
<1>1. <<d>> \in Seq(S) /\ <<>> \in Seq(S)
  OBVIOUS
<1>2. When(c, d) = <<d>> \/ When(c, d) = <<>>
  BY DEF When
<1> QED BY <1>1, <1>2

LEMMA DiagnoseType ==
  ASSUME NEW message, NEW fields, NEW separator, NEW truncated
  PROVE  diagnose(message, fields, separator, truncated) \in Seq(Diagnosis)
<1> DEFINE S == Seq(Diagnosis)
           header == HeaderDiagnostics(message, fields)
           trailer == TrailerDiagnostics(message, fields, separator)
           last == IF truncated \/ fields = <<>> THEN <<>> ELSE trailer
<1>1. \A s, t : s \in S /\ t \in S => s \o t \in S
  BY ConcatProperties
<1>2. \A c, d : d \in Diagnosis => When(c, d) \in S
  BY WhenType
<1>3. /\ "MissingBodyLength" \in Diagnosis /\ "MalformedBodyLength" \in Diagnosis
      /\ "MissingMsgType" \in Diagnosis /\ "BodyLengthMismatch" \in Diagnosis
      /\ "MalformedChecksum" \in Diagnosis /\ "ChecksumMismatch" \in Diagnosis
      /\ "Truncated" \in Diagnosis
  BY DEF Diagnosis, LogDiagnostic
<1>4. <<>> \in S
  OBVIOUS
<1> HIDE DEF S
<1>5. header \in S
  BY <1>1, <1>2, <1>3, Zenon DEF HeaderDiagnostics
<1>6. trailer \in S
  BY <1>1, <1>2, <1>3, Zenon DEF TrailerDiagnostics
<1> HIDE DEF header, trailer
<1>7. last \in S
  BY <1>4, <1>6
<1>8. diagnose(message, fields, separator, truncated)
        = (header \o When(truncated, "Truncated")) \o last
  BY Zenon DEF diagnose, header, trailer
<1> HIDE DEF last
<1> QED BY <1>1, <1>2, <1>3, <1>5, <1>7, <1>8, Zenon DEF S

-----------------------------------------------------------------------------
(* A read. *)

LEMMA ExcessProperties ==
  ASSUME NEW p \in Nat
  PROVE  /\ Excess(p) \in Nat /\ Excess(p) <= p /\ p - Excess(p) <= MAX_PREFIX_LEN
         /\ Excess(p) > 0 => p - Excess(p) = MAX_PREFIX_LEN
         /\ Excess(p) > 0 <=> p > MAX_PREFIX_LEN
<1> QED BY Limits DEF Excess

ReaderOK(R) ==
  /\ R.buf \in Seq(Byte) /\ R.searched \in 0 .. Len(R.buf)
  /\ R.prefix_truncated \in BOOLEAN /\ R.dropped \in Nat
  /\ R.override \in Byte \cup {None}

\* The most a reader holds that returned None.
MostHeld == MAX_PREFIX_LEN + MAX_MESSAGE_LEN + StartLen

\* What a read finds first.
Sought(R, at_end) == find_start(R.buf, R.searched, Len(R.buf), R.override, at_end)

\* read returned None: the prefix it has found is capped.  At the end of the
\* log it is left with no start.
TakesNone(R, at_end, X) ==
  \E p \in R.searched .. Len(R.buf) :
     /\ p = PrefixLen(R.buf, Sought(R, at_end))
     /\ at_end => Sought(R, at_end).kind # "Found"
     /\ X = [reader |-> CapPrefix(R, p), record |-> <<>>]
     /\ Len(R.buf) - Excess(p) <= MostHeld

\* read returned a record: a capped prefix, a message that begins where the
\* prefix ends, and the line break after it.
TakesOne(R, at_end, X) ==
  \E p \in R.searched .. Len(R.buf) :
    \E len, consumed \in Nat, message \in Seq(Byte), diagnostics \in Seq(LogDiagnostic),
       separator \in Byte :
     /\ p = PrefixLen(R.buf, Sought(R, at_end)) /\ Sought(R, at_end).kind = "Found"
     /\ 1 <= len /\ len <= consumed /\ p + consumed <= Len(R.buf)
     /\ X = [reader |-> Reader(Slice(R.buf, p + consumed, Len(R.buf)), 0, FALSE,
                               R.dropped + (p + consumed), R.override),
             record |-> <<Record(Slice(R.buf, Excess(p), p), message, diagnostics,
                                 R.dropped + p, len, consumed, separator)>>]
     /\ message \in {Slice(R.buf, p, p + len), Restored(Slice(R.buf, p, p + len))}
     /\ Slice(R.buf, p + len, p + consumed) \in {<<>>, <<LF>>, <<CR, LF>>}
     /\ (\E i \in 1 .. Len(diagnostics) : diagnostics[i] = "PrefixTruncated")
          <=> (R.prefix_truncated \/ Excess(p) > 0)

\* The report of a capped prefix is never made or unmade by diagnose.
LEMMA PrefixReported ==
  ASSUME NEW c \in BOOLEAN, NEW d \in Seq(Diagnosis)
  PROVE  LET t == When(c, "PrefixTruncated") \o d
         IN  /\ t \in Seq(LogDiagnostic)
             /\ (\E i \in 1 .. Len(t) : t[i] = "PrefixTruncated") <=> c
<1> DEFINE w == When(c, "PrefixTruncated")
           t == w \o d
<1>0. d \in Seq(LogDiagnostic) /\ \A i \in 1 .. Len(d) : d[i] # "PrefixTruncated"
  <2>1. \A i \in 1 .. Len(d) : d[i] \in Diagnosis
    BY ElementOfSeq
  <2>2. Diagnosis \subseteq LogDiagnostic
    BY DEF Diagnosis
  <2>3. d \in Seq(LogDiagnostic)
    BY <2>2
  <2> QED BY <2>1, <2>3 DEF Diagnosis
<1>1. CASE c
  <2>1. w = <<"PrefixTruncated">>
    BY <1>1 DEF When
  <2>2. "PrefixTruncated" \in LogDiagnostic
    BY DEF LogDiagnostic
  <2>3. w \in Seq(LogDiagnostic) /\ Len(w) = 1 /\ w[1] = "PrefixTruncated"
    <3>1. \A D, x : x \in D => <<x>> \in Seq(D) /\ Len(<<x>>) = 1 /\ <<x>>[1] = x
      OBVIOUS
    <3> HIDE DEF w
    <3> QED BY <2>1, <2>2, <3>1, Zenon
  <2> HIDE DEF w
  <2>4. t \in Seq(LogDiagnostic) /\ Len(t) = Len(w) + Len(d)
        /\ \A i \in 1 .. Len(w) + Len(d) : t[i] = IF i <= Len(w) THEN w[i] ELSE d[i - Len(w)]
    BY <1>0, <2>3, ConcatProperties
  <2>5. Len(d) \in Nat
    BY <1>0
  <2> HIDE DEF t
  <2>6. 1 \in 1 .. Len(t) /\ t[1] = "PrefixTruncated"
    BY <2>3, <2>4, <2>5
  <2> QED BY <1>1, <2>4, <2>6 DEF t, w
<1>2. CASE ~c
  <2>1. w = <<>>
    BY <1>2 DEF When
  <2>2. t = d
    BY <1>0, <2>1
  <2> QED BY <1>0, <1>2, <2>2
<1> QED BY <1>1, <1>2

\* What a read comes to, for any reader.
LEMMA ReadCases ==
  ASSUME NEW R, ReaderOK(R), NEW at_end \in BOOLEAN
  PROVE  TakesNone(R, at_end, read(R, at_end)) \/ TakesOne(R, at_end, read(R, at_end))
<1> DEFINE b == R.buf
           start == find_start(b, R.searched, Len(b), R.override, at_end)
           p == PrefixLen(b, start)
           e == Excess(p)
           C == CapPrefix(R, p)
           rest == Slice(C.buf, C.searched, Len(C.buf))
           x == MessageEnd(rest, start.separator, C.override, at_end)
           text == MessageText(rest, start.separator, x)
           separator == IF start.separator = CaretA THEN SOH ELSE start.separator
           diagnosed == diagnose(text, tokenize_fields(text, separator), separator, x.truncated)
           diagnostics == When(C.prefix_truncated, "PrefixTruncated") \o diagnosed
           X == read(R, at_end)
<1>0. /\ b \in Seq(Byte) /\ Len(b) \in Nat /\ R.searched \in 0 .. Len(b)
      /\ R.prefix_truncated \in BOOLEAN /\ R.dropped \in Nat
      /\ R.override \in Byte \cup {None}
  BY DEF ReaderOK
<1>1. StartResult(b, R.searched, Len(b), at_end, start)
  <2>1. R.searched \in Nat /\ Len(b) <= Len(b)
    BY <1>0
  <2> QED BY <1>0, <2>1, FindStartCases
<1>2. X = IF start.kind # "Found" THEN [reader |-> C, record |-> <<>>]
          ELSE TakeOrWait(C, start.separator, rest, x)
  BY Zenon DEF read, ReadPrefix, ReadFrom, ReadMessage
<1>10. p = PrefixLen(b, Sought(R, at_end)) /\ start = Sought(R, at_end)
  BY Zenon DEF Sought
<1> HIDE DEF X, start
<1>3. /\ p \in R.searched .. Len(b)
      /\ start.kind = "Found" => p < Len(b) /\ At(b, p) = 56
      /\ start.kind = "Pending" => Len(b) - p <= StartLen
      /\ start.kind \notin {"Found", "Pending"} => p = Len(b)
  BY <1>0, <1>1 DEF StartResult, PrefixLen
<1> HIDE DEF p
<1>4. /\ p \in Nat /\ e \in Nat /\ e <= p /\ p - e <= MAX_PREFIX_LEN /\ p <= Len(b)
      /\ Len(b) - p \in Nat
  <2>1. p \in Nat /\ p <= Len(b)
    BY <1>0, <1>3
  <2> QED BY <1>0, <2>1, ExcessProperties
<1> HIDE DEF e
<1>5. /\ C.buf = Slice(b, e, Len(b)) /\ C.searched = p - e /\ C.dropped = R.dropped + e
      /\ C.prefix_truncated = (R.prefix_truncated \/ e > 0) /\ C.override = R.override
  BY DEF CapPrefix, Reader, e
<1> HIDE DEF C
<1>6. ASSUME Len(b) - p <= MAX_MESSAGE_LEN + StartLen,
             at_end => start.kind # "Found", X = [reader |-> C, record |-> <<>>]
      PROVE  TakesNone(R, at_end, X)
  <2>1. Len(b) - e <= MostHeld
    BY <1>0, <1>4, <1>6, Limits DEF MostHeld
  <2> QED BY <1>3, <1>6, <1>10, <2>1 DEF TakesNone, C, e
<1>7. CASE start.kind # "Found"
  <2>1. Len(b) - p <= MAX_MESSAGE_LEN + StartLen
    <3>1. Len(b) - p <= StartLen \/ p = Len(b)
      BY <1>3, <1>7
    <3> QED BY <1>0, <1>4, <3>1, Limits
  <2>2. X = [reader |-> C, record |-> <<>>]
    BY <1>2, <1>7
  <2> QED BY <1>6, <1>7, <2>1, <2>2 DEF X
<1>8. CASE start.kind = "Found"
  <2>1. X = TakeOrWait(C, start.separator, rest, x)
    BY <1>2, <1>8
  <2>2. Len(C.buf) = Len(b) - e /\ C.buf \in Seq(Byte) /\ e <= Len(b)
    <3>1. e <= Len(b) /\ Len(b) <= Len(b)
      BY <1>0, <1>4
    <3>2. Slice(b, e, Len(b)) \in Seq(Byte) /\ Len(Slice(b, e, Len(b))) = Len(b) - e
      BY <1>0, <1>4, <3>1, ByteSlices, Zenon
    <3> QED BY <1>5, <3>1, <3>2
  <2>3. \A m, n \in Nat : m <= n /\ n <= Len(b) - e =>
          Slice(C.buf, m, n) = Slice(b, e + m, e + n)
    <3>1. /\ b \in Seq(Byte) /\ e \in Nat /\ Len(b) \in Nat
          /\ e <= Len(b) /\ Len(b) <= Len(b)
      BY <1>0, <1>4
    <3>2. \A m, n \in Nat : m <= n /\ n <= Len(b) - e =>
            Slice(Slice(b, e, Len(b)), m, n) = Slice(b, e + m, e + n)
      BY <3>1, SliceOfSlice, ZenonT(40)
    <3> QED BY <1>5, <3>2, Zenon
  <2>4. rest = Slice(b, p, Len(b))
    <3>1. /\ p - e \in Nat /\ Len(b) - e \in Nat /\ p - e <= Len(b) - e
          /\ Len(b) - e <= Len(b) - e /\ e + (p - e) = p /\ e + (Len(b) - e) = Len(b)
      BY <1>0, <1>4
    <3>2. Slice(C.buf, p - e, Len(b) - e) = Slice(b, e + (p - e), e + (Len(b) - e))
      BY <2>3, <3>1
    <3> QED BY <1>5, <2>2, <3>1, <3>2
  <2> HIDE DEF rest
  <2>5. /\ rest \in Seq(Byte) /\ Len(rest) = Len(b) - p /\ Len(rest) >= 1
        /\ At(rest, 0) = 56
    <3>1. Len(b) <= Len(b)
      BY <1>0
    <3>2. /\ rest \in Seq(Byte) /\ Len(rest) = Len(b) - p
          /\ \A k \in 1 .. Len(b) - p : rest[k] = b[p + k]
      BY <1>0, <1>4, <2>4, <3>1, ByteSlices, Zenon
    <3>3. Len(rest) >= 1 /\ rest[1] = b[p + 1]
      BY <1>0, <1>3, <1>4, <1>8, <3>2
    <3> QED BY <1>3, <1>8, <3>2, <3>3 DEF At
  <2>6. start.separator \in Byte \cup {CaretA}
    BY <1>1, <1>8 DEF StartResult
  <2>7. /\ EndResult(rest, at_end, x)
        /\ EndOK(rest, x) => /\ text \in Seq(Byte)
                             /\ text \in {Slice(rest, 0, x.len), Restored(Slice(rest, 0, x.len))}
    <3>1. C.override \in Byte \cup {None}
      BY <1>0, <1>5
    <3> QED BY <2>5, <2>6, <3>1, MessageEndCases
  <2>8. X = IF x.kind = "Waiting" THEN [reader |-> C, record |-> <<>>]
            ELSE TakeRecord(C, text, separator, x)
    BY <2>1, Zenon DEF TakeOrWait
  <2>9. separator \in Byte
    <3>1. SOH \in Byte
      BY DEF SOH, Byte
    <3> QED BY <2>6, <3>1
  <2> HIDE DEF x, text, separator
  <2>10. CASE WaitOK(rest, at_end, x)
    <3>1. x.kind = "Waiting" /\ Len(rest) <= MAX_MESSAGE_LEN + StartLen /\ ~at_end
      BY <2>10 DEF WaitOK, Waiting
    <3>2. X = [reader |-> C, record |-> <<>>]
      BY <2>8, <3>1
    <3>3. TakesNone(R, at_end, X)
      BY <1>6, <2>5, <3>1, <3>2
    <3> QED BY <3>3 DEF X
  <2>11. CASE EndOK(rest, x)
    <3>1. /\ x.len \in Nat /\ x.consumed \in Nat /\ 1 <= x.len /\ x.len <= x.consumed
          /\ p + x.consumed <= Len(b) /\ x.len <= Len(rest) /\ x.consumed <= Len(rest)
          /\ Slice(rest, x.len, x.consumed) \in {<<>>, <<LF>>, <<CR, LF>>}
          /\ x.kind # "Waiting"
      BY <1>0, <1>4, <2>5, <2>11, SMTT(30) DEF EndOK
    <3>2. \A m, n \in Nat : m <= n /\ n <= Len(b) - p =>
            Slice(rest, m, n) = Slice(b, p + m, p + n)
      <4>1. /\ b \in Seq(Byte) /\ p \in Nat /\ Len(b) \in Nat
            /\ p <= Len(b) /\ Len(b) <= Len(b)
        BY <1>0, <1>4
      <4>2. \A m, n \in Nat : m <= n /\ n <= Len(b) - p =>
              Slice(Slice(b, p, Len(b)), m, n) = Slice(b, p + m, p + n)
        BY <4>1, SliceOfSlice, ZenonT(40)
      <4> QED BY <2>4, <4>2, Zenon
    <3>3. Slice(rest, 0, x.len) = Slice(b, p, p + x.len)
      <4>1. 0 \in Nat /\ 0 <= x.len /\ x.len <= Len(b) - p /\ p + 0 = p
        BY <1>4, <2>5, <3>1
      <4>2. Slice(rest, 0, x.len) = Slice(b, p + 0, p + x.len)
        BY <3>1, <3>2, <4>1
      <4> QED BY <4>1, <4>2
    <3>4. Slice(rest, x.len, x.consumed) = Slice(b, p + x.len, p + x.consumed)
      BY <2>5, <3>1, <3>2
    <3>5. Slice(C.buf, 0, C.searched) = Slice(b, e, p)
      <4>1. 0 \in Nat /\ p - e \in Nat /\ 0 <= p - e /\ p - e <= Len(b) - e
            /\ e + 0 = e /\ e + (p - e) = p
        BY <1>0, <1>4
      <4>2. Slice(C.buf, 0, p - e) = Slice(b, e + 0, e + (p - e))
        BY <2>3, <4>1
      <4> QED BY <1>5, <4>1, <4>2
    <3> DEFINE consumed == C.searched + x.consumed
    <3>6. /\ Slice(C.buf, consumed, Len(C.buf)) = Slice(b, p + x.consumed, Len(b))
          /\ C.dropped + consumed = R.dropped + (p + x.consumed)
          /\ C.dropped + C.searched = R.dropped + p
      <4>1. /\ consumed = (p - e) + x.consumed /\ consumed \in Nat /\ Len(b) - e \in Nat
            /\ consumed <= Len(b) - e /\ Len(b) - e <= Len(b) - e
            /\ e + consumed = p + x.consumed /\ e + (Len(b) - e) = Len(b)
            /\ C.dropped + consumed = R.dropped + (p + x.consumed)
            /\ C.dropped + C.searched = R.dropped + p
        <5>1. C.searched = p - e /\ C.dropped = R.dropped + e
          BY <1>5
        <5>2. x.consumed \in Nat /\ p + x.consumed <= Len(b)
          BY <3>1
        <5>3. R.dropped \in Nat
          BY <1>0
        <5> DEFINE d == R.dropped
                   n == x.consumed
        <5> HIDE DEF d, n
        <5>4. /\ (p - e) + n \in Nat /\ Len(b) - e \in Nat
              /\ (p - e) + n <= Len(b) - e /\ Len(b) - e <= Len(b) - e
              /\ e + ((p - e) + n) = p + n /\ e + (Len(b) - e) = Len(b)
              /\ (d + e) + ((p - e) + n) = d + (p + n)
              /\ (d + e) + (p - e) = d + p
          BY <1>0, <1>4, <5>2, <5>3, SMTT(30) DEF d, n
        <5> QED BY <5>1, <5>4 DEF d, n
      <4> HIDE DEF consumed
      <4>2. Slice(C.buf, consumed, Len(b) - e) = Slice(b, e + consumed, e + (Len(b) - e))
        BY <2>3, <4>1
      <4> QED BY <2>2, <4>1, <4>2
    <3> HIDE DEF consumed
    <3>7. /\ diagnostics \in Seq(LogDiagnostic)
          /\ (\E i \in 1 .. Len(diagnostics) : diagnostics[i] = "PrefixTruncated")
               <=> (R.prefix_truncated \/ e > 0)
      <4>1. diagnosed \in Seq(Diagnosis)
        BY DiagnoseType
      <4> HIDE DEF diagnosed
      <4>2. C.prefix_truncated \in BOOLEAN
        BY <1>5
      <4>3. /\ diagnostics \in Seq(LogDiagnostic)
            /\ (\E i \in 1 .. Len(diagnostics) : diagnostics[i] = "PrefixTruncated")
                 <=> C.prefix_truncated
        BY <4>1, <4>2, PrefixReported
      <4> HIDE DEF diagnostics
      <4> QED BY <1>5, <4>3
    <3>8. X = [reader |-> Reader(Slice(C.buf, consumed, Len(C.buf)), 0, FALSE,
                                 C.dropped + consumed, C.override),
               record |-> <<Record(Slice(C.buf, 0, C.searched), text, diagnostics,
                                   C.dropped + C.searched, x.len, x.consumed, separator)>>]
      <4>1. X = TakeRecord(C, text, separator, x)
        BY <2>8, <3>1
      <4> QED BY <4>1, Zenon DEF TakeRecord, consumed
    <3> HIDE DEF diagnostics
    <3>9. X = [reader |-> Reader(Slice(b, p + x.consumed, Len(b)), 0, FALSE,
                                 R.dropped + (p + x.consumed), R.override),
               record |-> <<Record(Slice(b, e, p), text, diagnostics,
                                   R.dropped + p, x.len, x.consumed, separator)>>]
      BY <1>5, <3>5, <3>6, <3>8, Zenon
    <3>10. /\ text \in Seq(Byte)
           /\ text \in {Slice(b, p, p + x.len), Restored(Slice(b, p, p + x.len))}
      BY <2>7, <2>11, <3>3
    <3>11. TakesOne(R, at_end, X)
      <4>1. p = PrefixLen(R.buf, Sought(R, at_end)) /\ Sought(R, at_end).kind = "Found"
        BY <1>8, <1>10
      <4>2. /\ p \in R.searched .. Len(R.buf) /\ x.len \in Nat /\ x.consumed \in Nat
            /\ text \in Seq(Byte) /\ diagnostics \in Seq(LogDiagnostic)
            /\ separator \in Byte
        BY <1>3, <2>9, <3>1, <3>7, <3>10
      <4>3. X = [reader |-> Reader(Slice(b, p + x.consumed, Len(b)), 0, FALSE,
                                   R.dropped + (p + x.consumed), R.override),
                 record |-> <<Record(Slice(b, Excess(p), p), text, diagnostics,
                                     R.dropped + p, x.len, x.consumed, separator)>>]
        BY <3>9, Zenon DEF e
      <4>4. /\ 1 <= x.len /\ x.len <= x.consumed /\ p + x.consumed <= Len(b)
            /\ text \in {Slice(b, p, p + x.len), Restored(Slice(b, p, p + x.len))}
            /\ Slice(b, p + x.len, p + x.consumed) \in {<<>>, <<LF>>, <<CR, LF>>}
            /\ (\E i \in 1 .. Len(diagnostics) : diagnostics[i] = "PrefixTruncated")
                 <=> (R.prefix_truncated \/ Excess(p) > 0)
        BY <3>1, <3>4, <3>7, <3>10 DEF e
      <4> QED BY <4>1, <4>2, <4>3, <4>4, ZenonT(40) DEF TakesOne
    <3> QED BY <3>11 DEF X
  <2> QED BY <2>7, <2>10, <2>11 DEF EndResult
<1> QED BY <1>7, <1>8

-----------------------------------------------------------------------------
(* The invariant. *)

LogRecord ==
  [prefix : Seq(Byte), message : Seq(Byte), diagnostics : Seq(LogDiagnostic),
   from : Nat, to : Nat, end : Nat, separator : Byte]

\* Where the record before the i-th of rs ends, and where the last does.
EndIn(rs, i) == IF i = 1 THEN 0 ELSE rs[i - 1].end
LastEnd(rs) == EndIn(rs, Len(rs) + 1)

\* What RecordsTileTheLog says of one record r of the log l, when the one
\* before it ends at from.
RecordTiles(l, from, r) ==
  LET gap == Slice(l, from, r.from)
      logged == Slice(l, r.from, r.to)
  IN  /\ from <= r.from /\ r.from < r.to
      /\ r.prefix = Slice(gap, Excess(Len(gap)), Len(gap))
      /\ Reports(r, "PrefixTruncated") <=> Len(gap) > MAX_PREFIX_LEN
      /\ r.message \in {logged, Restored(logged)}
      /\ Slice(l, r.to, r.end) \in {<<>>, <<LF>>, <<CR, LF>>}

\* The buffer b is the log l from d, past the last record, to f.  Something is
\* missing between that record and b only if the prefix in b is full.
LogInv(l, s, f, b, sd, t, d, rs) ==
  /\ l \in Seq(Byte) /\ s \in Byte \cup {None}
  /\ f \in 0 .. Len(l) /\ d \in 0 .. f /\ b = Slice(l, d, f)
  /\ sd \in 0 .. Len(b) /\ sd <= MAX_PREFIX_LEN
  /\ rs \in Seq(LogRecord)
  /\ LastEnd(rs) \in Nat /\ LastEnd(rs) <= d
  /\ t = (d > LastEnd(rs))
  /\ d > LastEnd(rs) => sd = MAX_PREFIX_LEN
  /\ \A i \in 1 .. Len(rs) : RecordTiles(l, EndIn(rs, i), rs[i])

IInv ==
  /\ [text |-> log, separator |-> given_separator] \in Logs
  /\ LogInv(log, given_separator, fed, buf, searched, prefix_truncated, dropped, records)
  /\ finished \in BOOLEAN
  /\ returned \in {"nothing", "None", "Record"}
  /\ returned = "None" => Len(buf) <= MostHeld

\* The arithmetic of a capped prefix: the one kept of the p bytes in the
\* buffer is the one kept of all since the last record, lost bytes included.
LEMMA CapArithmetic ==
  ASSUME NEW from \in Nat, NEW d \in Nat, from <= d, NEW sd \in Nat,
         d > from => sd = MAX_PREFIX_LEN, NEW p \in Nat, sd <= p
  PROVE  /\ from + Excess((d + p) - from) = d + Excess(p)
         /\ (d + p) - from > MAX_PREFIX_LEN <=> d > from \/ Excess(p) > 0
         /\ d + Excess(p) > from <=> d > from \/ Excess(p) > 0
         /\ d + Excess(p) > from => p - Excess(p) = MAX_PREFIX_LEN
<1> QED BY Limits DEF Excess

\* A read keeps the invariant, and holds little when it returns None.
LEMMA ReadKeeps ==
  ASSUME NEW l, NEW s, NEW f, NEW b, NEW sd, NEW t, NEW d, NEW rs,
         LogInv(l, s, f, b, sd, t, d, rs), NEW at_end \in BOOLEAN
  PROVE  LET X == read(Reader(b, sd, t, d, s), at_end)
         IN  /\ LogInv(l, s, f, X.reader.buf, X.reader.searched,
                       X.reader.prefix_truncated, X.reader.dropped, rs \o X.record)
             /\ X.record = <<>> => Len(X.reader.buf) <= MostHeld
<1> DEFINE R == Reader(b, sd, t, d, s)
           X == read(R, at_end)
           from == LastEnd(rs)
<1>0. /\ l \in Seq(Byte) /\ s \in Byte \cup {None} /\ Len(l) \in Nat
      /\ f \in Nat /\ f <= Len(l) /\ d \in Nat /\ d <= f /\ b = Slice(l, d, f)
      /\ sd \in 0 .. Len(b) /\ sd \in Nat
      /\ rs \in Seq(LogRecord) /\ Len(rs) \in Nat
      /\ from \in Nat /\ from <= d /\ t = (d > from)
      /\ d > from => sd = MAX_PREFIX_LEN
  BY DEF LogInv
<1>1. b \in Seq(Byte) /\ Len(b) = f - d /\ Len(b) \in Nat
  <2>1. Slice(l, d, f) \in Seq(Byte) /\ Len(Slice(l, d, f)) = f - d
    BY <1>0, ByteSlices, Zenon
  <2> QED BY <1>0, <2>1
<1>2. /\ R.buf = b /\ R.searched = sd /\ R.prefix_truncated = t /\ R.dropped = d
      /\ R.override = s
  BY DEF Reader
<1> HIDE DEF R
<1>3. ReaderOK(R)
  <2>1. t \in BOOLEAN
    BY <1>0
  <2> QED BY <1>0, <1>1, <1>2, <2>1 DEF ReaderOK
<1>4. TakesNone(R, at_end, X) \/ TakesOne(R, at_end, X)
  BY <1>3, ReadCases
<1>5. \A i, k \in Nat : i <= k /\ k <= Len(b) => Slice(b, i, k) = Slice(l, d + i, d + k)
  <2>1. \A i, k \in Nat : i <= k /\ k <= f - d =>
          Slice(Slice(l, d, f), i, k) = Slice(l, d + i, d + k)
    BY <1>0, SliceOfSlice
  <2> QED BY <1>0, <1>1, <2>1
<1> HIDE DEF X, from
<1>6. CASE TakesNone(R, at_end, X)
  <2>1. PICK p \in sd .. Len(b) : /\ X = [reader |-> CapPrefix(R, p), record |-> <<>>]
                                  /\ Len(b) - Excess(p) <= MostHeld
    BY <1>2, <1>6 DEF TakesNone
  <2> DEFINE e == Excess(p)
             N == X.reader
  <2>2. p \in Nat /\ p <= Len(b) /\ sd <= p
    BY <1>0, <1>1, <2>1
  <2>3. e \in Nat /\ e <= p /\ p - e <= MAX_PREFIX_LEN
    BY <2>2, ExcessProperties
  <2>4. /\ d + e > from <=> d > from \/ e > 0
        /\ d + e > from => p - e = MAX_PREFIX_LEN
    BY <1>0, <2>2, CapArithmetic
  <2> HIDE DEF e
  <2>5. /\ N.buf = Slice(b, e, Len(b)) /\ N.searched = p - e
        /\ N.prefix_truncated = (t \/ e > 0) /\ N.dropped = d + e /\ X.record = <<>>
    <3>1. N = CapPrefix(R, p) /\ X.record = <<>>
      BY <2>1
    <3> HIDE DEF N
    <3> QED BY <1>2, <3>1 DEF CapPrefix, Reader, e
  <2> HIDE DEF N
  <2>6. /\ N.buf = Slice(l, d + e, f) /\ Len(N.buf) = Len(b) - e
    <3>1. e <= Len(b) /\ Len(b) <= Len(b) /\ d + Len(b) = f
      BY <1>0, <1>1, <2>2, <2>3
    <3>2. Slice(b, e, Len(b)) = Slice(l, d + e, d + Len(b))
      BY <1>1, <1>5, <2>3, <3>1
    <3>3. Len(Slice(b, e, Len(b))) = Len(b) - e
      BY <1>1, <2>3, <3>1, ByteSlices, Zenon
    <3> QED BY <2>5, <3>1, <3>2, <3>3
  <2>7. rs \o X.record = rs
    BY <1>0, <2>5, ConcatEmptySeq
  <2>8. N.searched \in 0 .. Len(N.buf) /\ N.searched <= MAX_PREFIX_LEN
    BY <1>1, <2>2, <2>3, <2>5, <2>6
  <2>9. N.dropped \in 0 .. f /\ from <= N.dropped
    BY <1>0, <1>1, <2>2, <2>3, <2>5
  <2>10. N.prefix_truncated = (N.dropped > from)
    <3>1. t <=> d > from
      BY <1>0
    <3>2. (t \/ e > 0) <=> d + e > from
      BY <2>4, <3>1
    <3> QED BY <2>5, <3>2
  <2>11. N.dropped > from => N.searched = MAX_PREFIX_LEN
    BY <2>4, <2>5
  <2>12. LogInv(l, s, f, N.buf, N.searched, N.prefix_truncated, N.dropped, rs \o X.record)
    <3>1. \A i \in 1 .. Len(rs) : RecordTiles(l, EndIn(rs, i), rs[i])
      BY DEF LogInv
    <3>2. f \in 0 .. Len(l) /\ N.buf = Slice(l, N.dropped, f)
      BY <1>0, <2>5, <2>6
    <3> QED BY <1>0, <2>7, <2>8, <2>9, <2>10, <2>11, <3>1, <3>2 DEF LogInv, from
  <2>13. Len(N.buf) <= MostHeld
    BY <2>1, <2>6 DEF e
  <2> QED BY <2>12, <2>13 DEF N, X, R
<1>7. CASE TakesOne(R, at_end, X)
  <2>1. PICK p \in R.searched .. Len(R.buf), len \in Nat, consumed \in Nat,
             message \in Seq(Byte), diagnostics \in Seq(LogDiagnostic), separator \in Byte :
            /\ p = PrefixLen(R.buf, Sought(R, at_end)) /\ Sought(R, at_end).kind = "Found"
            /\ 1 <= len /\ len <= consumed /\ p + consumed <= Len(R.buf)
            /\ X = [reader |-> Reader(Slice(R.buf, p + consumed, Len(R.buf)), 0, FALSE,
                                      R.dropped + (p + consumed), R.override),
                    record |-> <<Record(Slice(R.buf, Excess(p), p), message, diagnostics,
                                        R.dropped + p, len, consumed, separator)>>]
            /\ message \in {Slice(R.buf, p, p + len), Restored(Slice(R.buf, p, p + len))}
            /\ Slice(R.buf, p + len, p + consumed) \in {<<>>, <<LF>>, <<CR, LF>>}
            /\ (\E i \in 1 .. Len(diagnostics) : diagnostics[i] = "PrefixTruncated")
                 <=> (R.prefix_truncated \/ Excess(p) > 0)
    BY <1>7, Zenon DEF TakesOne
  <2>2. /\ p \in sd .. Len(b)
        /\ 1 <= len /\ len <= consumed /\ p + consumed <= Len(b)
        /\ X = [reader |-> Reader(Slice(b, p + consumed, Len(b)), 0, FALSE,
                                  d + (p + consumed), s),
                record |-> <<Record(Slice(b, Excess(p), p), message, diagnostics,
                                    d + p, len, consumed, separator)>>]
        /\ message \in {Slice(b, p, p + len), Restored(Slice(b, p, p + len))}
        /\ Slice(b, p + len, p + consumed) \in {<<>>, <<LF>>, <<CR, LF>>}
        /\ (\E i \in 1 .. Len(diagnostics) : diagnostics[i] = "PrefixTruncated")
             <=> (t \/ Excess(p) > 0)
    BY <1>2, <2>1, Zenon
  <2> DEFINE e == Excess(p)
             N == X.reader
             r == Record(Slice(b, e, p), message, diagnostics, d + p, len, consumed, separator)
             n == p + consumed
  <2>3. p \in Nat /\ p <= Len(b) /\ sd <= p
    BY <1>0, <1>1, <2>2
  <2>4. e \in Nat /\ e <= p
    BY <2>3, ExcessProperties
  <2>5. /\ from + Excess((d + p) - from) = d + e
        /\ (d + p) - from > MAX_PREFIX_LEN <=> d > from \/ e > 0
    <3>1. /\ from \in Nat /\ d \in Nat /\ from <= d /\ sd \in Nat /\ sd <= p /\ p \in Nat
          /\ d > from => sd = MAX_PREFIX_LEN
      BY <1>0, <2>3
    <3>2. from + Excess((d + p) - from) = d + Excess(p)
      BY <3>1, CapArithmetic
    <3>3. (d + p) - from > MAX_PREFIX_LEN <=> d > from \/ Excess(p) > 0
      BY <3>1, CapArithmetic
    <3> QED BY <3>2, <3>3
  <2> HIDE DEF e
  <2>6. n \in Nat /\ n <= Len(b) /\ p <= n /\ p + len <= n /\ p + len \in Nat /\ p <= p + len
    BY <2>2, <2>3
  <2>7. /\ N.buf = Slice(b, n, Len(b)) /\ N.searched = 0 /\ N.prefix_truncated = FALSE
        /\ N.dropped = d + n /\ X.record = <<r>>
    <3>1. N = Reader(Slice(b, n, Len(b)), 0, FALSE, d + n, s) /\ X.record = <<r>>
      BY <2>2 DEF e
    <3> HIDE DEF N, n, r
    <3> QED BY <3>1 DEF Reader
  <2>8. /\ r.prefix = Slice(b, e, p) /\ r.message = message /\ r.diagnostics = diagnostics
        /\ r.from = d + p /\ r.to = d + p + len /\ r.end = d + p + consumed
        /\ r.separator = separator
    BY DEF Record
  <2>9. r \in LogRecord
    <3>1. Slice(b, e, p) \in Seq(Byte)
      BY <1>1, <2>3, <2>4, ByteSlices, Zenon
    <3>2. d + p \in Nat /\ d + p + len \in Nat /\ d + p + consumed \in Nat
      BY <1>0, <2>2, <2>3
    <3>3. message \in Seq(Byte) /\ diagnostics \in Seq(LogDiagnostic) /\ separator \in Byte
      OBVIOUS
    <3>4. r = [prefix |-> Slice(b, e, p), message |-> message, diagnostics |-> diagnostics,
               from |-> d + p, to |-> d + p + len, end |-> d + p + consumed,
               separator |-> separator]
      BY DEF Record
    <3> DEFINE u == Slice(b, e, p)
               v == d + p
               w == d + p + len
               y == d + p + consumed
    <3> HIDE DEF u, v, w, y, r
    <3>5. u \in Seq(Byte) /\ v \in Nat /\ w \in Nat /\ y \in Nat
      BY <3>1, <3>2 DEF u, v, w, y
    <3>6. r = [prefix |-> u, message |-> message, diagnostics |-> diagnostics,
               from |-> v, to |-> w, end |-> y, separator |-> separator]
      BY <3>4 DEF u, v, w, y
    <3> QED BY <3>3, <3>5, <3>6, Zenon DEF LogRecord
  <2>10. RecordTiles(l, from, r)
    <3> DEFINE gap == Slice(l, from, r.from)
               logged == Slice(l, r.from, r.to)
               k == (d + p) - from
               x == Excess(k)
    <3>1. /\ d + p \in Nat /\ from <= d + p /\ d + p <= Len(l) /\ d + p + len \in Nat
          /\ d + p + consumed \in Nat /\ k \in Nat
      BY <1>0, <1>1, <2>2, <2>3, SMTT(30)
    <3>2. gap \in Seq(Byte) /\ Len(gap) = k
      <4>1. Slice(l, from, d + p) \in Seq(Byte) /\ Len(Slice(l, from, d + p)) = (d + p) - from
        BY <1>0, <3>1, ByteSlices, Zenon
      <4>2. gap = Slice(l, from, d + p)
        BY <2>8
      <4> HIDE DEF gap
      <4> QED BY <4>1, <4>2
    <3>3. r.prefix = Slice(gap, Excess(Len(gap)), Len(gap))
      <4>1. \A i, j \in Nat : i <= j /\ j <= (d + p) - from =>
              Slice(Slice(l, from, d + p), i, j) = Slice(l, from + i, from + j)
        BY <1>0, <3>1, SliceOfSlice
      <4>2. x \in Nat /\ x <= k /\ from + k = d + p
        <5>1. from + k = d + p
          BY <1>0, <2>3
        <5> HIDE DEF k
        <5> QED BY <3>1, <5>1, ExcessProperties
      <4>3. k <= (d + p) - from
        BY <3>1
      <4>4. Slice(gap, x, k) = Slice(l, from + x, from + k)
        <5> HIDE DEF x
        <5> QED BY <2>8, <3>1, <4>1, <4>2, <4>3
      <4>5. Slice(b, e, p) = Slice(l, d + e, d + p)
        BY <1>5, <2>3, <2>4
      <4>6. Slice(b, e, p) = Slice(gap, x, k)
        BY <2>5, <4>2, <4>4, <4>5
      <4> HIDE DEF gap, k, x
      <4>7. x = Excess(Len(gap))
        BY <3>2 DEF x
      <4> QED BY <2>8, <3>2, <4>6, <4>7
    <3>4. Reports(r, "PrefixTruncated") <=> Len(gap) > MAX_PREFIX_LEN
      <4>1. Reports(r, "PrefixTruncated") <=> t \/ e > 0
        BY <2>2, <2>8 DEF Reports, e
      <4>2. t <=> d > from
        BY <1>0
      <4> HIDE DEF gap
      <4> QED BY <2>5, <3>2, <4>1, <4>2
    <3>5. r.message \in {logged, Restored(logged)}
      <4>1. Slice(b, p, p + len) = Slice(l, d + p, d + (p + len))
        BY <1>5, <2>3, <2>6
      <4>2. d + (p + len) = d + p + len
        BY <1>0, <2>2, <2>3
      <4>3. Slice(b, p, p + len) = logged
        BY <2>8, <4>1, <4>2
      <4> HIDE DEF r, logged
      <4> QED BY <2>2, <2>8, <4>3
    <3>6. Slice(l, r.to, r.end) \in {<<>>, <<LF>>, <<CR, LF>>}
      <4>1. p + len \in Nat /\ p + consumed \in Nat /\ p + len <= p + consumed
        BY <2>2, <2>3
      <4>2. Slice(b, p + len, p + consumed) = Slice(l, d + (p + len), d + (p + consumed))
        BY <1>5, <2>2, <4>1
      <4>3. d + (p + len) = d + p + len /\ d + (p + consumed) = d + p + consumed
        BY <1>0, <2>2, <2>3
      <4> HIDE DEF r
      <4> QED BY <2>2, <2>8, <4>2, <4>3
    <3>7. from <= r.from /\ r.from < r.to
      <4> HIDE DEF r
      <4> QED BY <1>0, <2>2, <2>3, <2>8, <3>1
    <3> QED BY <3>3, <3>4, <3>5, <3>6, <3>7 DEF RecordTiles
  <2> HIDE DEF r, N
  <2>11. /\ rs \o X.record = Append(rs, r) /\ Append(rs, r) \in Seq(LogRecord)
         /\ Len(Append(rs, r)) = Len(rs) + 1
         /\ \A i \in 1 .. Len(rs) : Append(rs, r)[i] = rs[i]
         /\ Append(rs, r)[Len(rs) + 1] = r
    <3>1. rs \o <<r>> = Append(rs, r)
      BY <1>0, <2>9
    <3>2. /\ Append(rs, r) \in Seq(LogRecord) /\ Len(Append(rs, r)) = Len(rs) + 1
          /\ \A i \in 1 .. Len(rs) : Append(rs, r)[i] = rs[i]
          /\ Append(rs, r)[Len(rs) + 1] = r
      BY <1>0, <2>9, AppendProperties
    <3> QED BY <2>7, <3>1, <3>2
  <2> DEFINE all == Append(rs, r)
  <2>12. LastEnd(all) = d + n
    <3>1. LastEnd(all) = all[Len(rs) + 1].end
      <4> HIDE DEF all
      <4>1. Len(all) + 1 # 1 /\ (Len(all) + 1) - 1 = Len(rs) + 1
        BY <1>0, <2>11 DEF all
      <4> QED BY <4>1 DEF LastEnd, EndIn
    <3>2. d + p + consumed = d + n
      BY <1>0, <2>2, <2>3
    <3> QED BY <2>8, <2>11, <3>1, <3>2
  <2>13. \A i \in 1 .. Len(all) : RecordTiles(l, EndIn(all, i), all[i])
    <3> SUFFICES ASSUME NEW i \in 1 .. Len(all)
                 PROVE  RecordTiles(l, EndIn(all, i), all[i])
      OBVIOUS
    <3>0. Len(all) = Len(rs) + 1
      BY <2>11
    <3>1. EndIn(all, i) = EndIn(rs, i)
      <4>1. CASE i = 1
        BY <4>1 DEF EndIn
      <4>2. CASE i # 1
        <5>1. i - 1 \in 1 .. Len(rs)
          <6> HIDE DEF all
          <6> QED BY <1>0, <3>0, <4>2
        <5>2. all[i - 1] = rs[i - 1]
          BY <2>11, <5>1
        <5> HIDE DEF all
        <5> QED BY <4>2, <5>2 DEF EndIn
      <4> QED BY <4>1, <4>2
    <3>2. CASE i = Len(rs) + 1
      <4>1. EndIn(rs, i) = from /\ all[i] = r
        BY <2>11, <3>2 DEF from, LastEnd
      <4> HIDE DEF all
      <4> QED BY <2>10, <3>1, <4>1
    <3>3. CASE i # Len(rs) + 1
      <4>1. i \in 1 .. Len(rs)
        <5> HIDE DEF all
        <5> QED BY <1>0, <3>0, <3>3
      <4>2. all[i] = rs[i] /\ RecordTiles(l, EndIn(rs, i), rs[i])
        BY <2>11, <4>1 DEF LogInv
      <4> HIDE DEF all
      <4> QED BY <3>1, <4>2
    <3> QED BY <3>2, <3>3
  <2> HIDE DEF all, n
  <2>14. N.buf = Slice(l, d + n, f) /\ Len(N.buf) \in Nat /\ d + n \in 0 .. f
    <3>1. Len(b) <= Len(b) /\ d + Len(b) = f
      BY <1>0, <1>1
    <3>2. Slice(b, n, Len(b)) = Slice(l, d + n, d + Len(b))
      BY <1>1, <1>5, <2>6, <3>1
    <3>3. Len(Slice(b, n, Len(b))) = Len(b) - n
      BY <1>1, <2>6, <3>1, ByteSlices, Zenon
    <3>4. Len(b) - n \in Nat /\ d + n \in 0 .. f
      BY <1>0, <1>1, <2>6, <3>1
    <3> QED BY <2>7, <3>1, <3>2, <3>3, <3>4
  <2>15. N.searched \in 0 .. Len(N.buf) /\ N.searched <= MAX_PREFIX_LEN
    BY <2>7, <2>14, Limits
  <2>16. ~(d + n > d + n)
    BY <1>0, <2>6
  <2>17. /\ rs \o X.record = all /\ all \in Seq(LogRecord)
         /\ f \in 0 .. Len(l) /\ d + n \in Nat /\ d + n <= d + n
    BY <1>0, <2>6, <2>11, SMTT(30) DEF all
  <2>18. LogInv(l, s, f, N.buf, N.searched, N.prefix_truncated, N.dropped, all)
    <3>1. /\ N.prefix_truncated = (N.dropped > LastEnd(all))
          /\ N.dropped > LastEnd(all) => N.searched = MAX_PREFIX_LEN
      <4>1. N.prefix_truncated = FALSE /\ (N.dropped > LastEnd(all)) = FALSE
        BY <2>7, <2>12, <2>16
      <4> QED BY <4>1
    <3>2. /\ N.dropped \in 0 .. f /\ N.buf = Slice(l, N.dropped, f)
          /\ LastEnd(all) \in Nat /\ LastEnd(all) <= N.dropped
      BY <2>7, <2>12, <2>14, <2>17
    <3> QED BY <1>0, <2>13, <2>15, <2>17, <3>1, <3>2 DEF LogInv
  <2>19. X.record # <<>>
    BY <2>7
  <2> QED BY <2>17, <2>18, <2>19 DEF N, X, R
<1> QED BY <1>4, <1>6, <1>7 DEF X, R

\* At the start nothing is fed and nothing read.
LEMMA InitInv == Init => IInv
<1> SUFFICES ASSUME Init PROVE IInv
  OBVIOUS
<1>1. PICK l \in Logs : log = l.text /\ given_separator = l.separator
  BY Zenon DEF Init
<1>2. l \in [text : Seq(Byte), separator : Byte \cup {None}]
  BY LogReaderAssumption
<1>3. [text |-> log, separator |-> given_separator] = l
  BY <1>1, <1>2
<1>4. log \in Seq(Byte) /\ given_separator \in Byte \cup {None}
  BY <1>1, <1>2
<1>5. /\ fed = 0 /\ buf = <<>> /\ searched = 0 /\ prefix_truncated = FALSE
      /\ dropped = 0 /\ records = <<>>
  BY DEF Init
<1>6. Slice(log, 0, 0) = <<>>
  <2>1. Slice(log, 0, 0) \in Seq(Byte) /\ Len(Slice(log, 0, 0)) = 0
    <3>1. 0 \in Nat /\ 0 <= 0 /\ 0 <= Len(log) /\ 0 - 0 = 0
      BY <1>4
    <3> QED BY <1>4, <3>1, ByteSlices
  <2> QED BY <2>1, EmptySeq
<1>7. LastEnd(<<>>) = 0
  <2>1. Len(<<>>) + 1 = 1
    OBVIOUS
  <2> QED BY <2>1 DEF LastEnd, EndIn
<1>8. LogInv(log, given_separator, fed, buf, searched, prefix_truncated, dropped, records)
  <2>1. Len(log) \in Nat /\ Len(<<>>) = 0 /\ <<>> \in Seq(LogRecord) /\ 0 \in Nat
    BY <1>4
  <2>2. 0 \in 0 .. Len(log) /\ 0 \in 0 .. 0 /\ 0 <= MAX_PREFIX_LEN /\ ~(0 > 0)
        /\ (0 > 0) = FALSE
    BY <2>1, Limits
  <2>3. \A i \in 1 .. Len(records) : RecordTiles(log, EndIn(records, i), records[i])
    BY <1>5, <2>1
  <2>4. /\ fed \in 0 .. Len(log) /\ dropped \in 0 .. fed /\ buf = Slice(log, dropped, fed)
        /\ searched \in 0 .. Len(buf) /\ searched <= MAX_PREFIX_LEN
        /\ records \in Seq(LogRecord)
    BY <1>5, <1>6, <2>1, <2>2
  <2>5. /\ LastEnd(records) = 0 /\ LastEnd(records) \in Nat /\ LastEnd(records) <= dropped
        /\ ~(dropped > LastEnd(records))
    BY <1>5, <1>7, <2>2
  <2>6. prefix_truncated = (dropped > LastEnd(records))
    <3>1. prefix_truncated = FALSE /\ (dropped > LastEnd(records)) = FALSE
      <4>1. (0 > 0) = FALSE
        BY <2>2
      <4> QED BY <1>5, <1>7, <4>1, Zenon
    <3> QED BY <3>1, Zenon
  <2> QED BY <1>4, <2>3, <2>4, <2>5, <2>6 DEF LogInv
<1>9. l \in Logs /\ finished = FALSE /\ returned = "nothing"
  BY <1>1 DEF Init
<1> QED BY <1>3, <1>8, <1>9 DEF IInv

\* A chunk that is fed goes behind the bytes that are not read.
LEMMA FeedKeeps ==
  ASSUME NEW l, NEW s, NEW f, NEW b, NEW sd, NEW t, NEW d, NEW rs,
         LogInv(l, s, f, b, sd, t, d, rs), NEW u \in f .. Len(l)
  PROVE  LogInv(l, s, u, b \o Slice(l, f, u), sd, t, d, rs)
<1>1. /\ l \in Seq(Byte) /\ Len(l) \in Nat /\ f \in Nat /\ f <= Len(l)
      /\ d \in Nat /\ d <= f /\ b = Slice(l, d, f) /\ u \in Nat /\ f <= u /\ u <= Len(l)
      /\ d <= u /\ u \in 0 .. Len(l) /\ d \in 0 .. u
  BY DEF LogInv
<1>2. b \o Slice(l, f, u) = Slice(l, d, u)
  BY <1>1, SliceConcat
<1>3. Len(b) = f - d /\ Len(Slice(l, d, u)) = u - d
  BY <1>1, ByteSlices
<1>4. sd \in 0 .. Len(Slice(l, d, u))
  <2>1. sd \in 0 .. Len(b)
    BY DEF LogInv
  <2> QED BY <1>1, <1>3, <2>1
<1> QED BY <1>1, <1>2, <1>4 DEF LogInv

\* A turn of next_record or of the iterator of finish.
LEMMA ReadStep ==
  ASSUME IInv, NEW at_end \in BOOLEAN, Read(at_end)
  PROVE  IInv'
<1> DEFINE R == Reader(buf, searched, prefix_truncated, dropped, given_separator)
           X == read(R, at_end)
<1>1. ReadTo(X)
  BY Zenon DEF Read
<1>2. LogInv(log, given_separator, fed, buf, searched, prefix_truncated, dropped, records)
  BY DEF IInv
<1>3. /\ LogInv(log, given_separator, fed, X.reader.buf, X.reader.searched,
                X.reader.prefix_truncated, X.reader.dropped, records \o X.record)
      /\ X.record = <<>> => Len(X.reader.buf) <= MostHeld
  BY <1>2, ReadKeeps, Zenon
<1> HIDE DEF X
<1>4. /\ buf' = X.reader.buf /\ searched' = X.reader.searched
      /\ prefix_truncated' = X.reader.prefix_truncated /\ dropped' = X.reader.dropped
      /\ records' = records \o X.record
      /\ returned' = IF X.record = <<>> THEN "None" ELSE "Record"
      /\ log' = log /\ given_separator' = given_separator /\ fed' = fed
      /\ finished' = finished
  BY <1>1 DEF ReadTo
<1>5. LogInv(log', given_separator', fed', buf', searched', prefix_truncated', dropped',
             records')
  BY <1>3, <1>4
<1>6. returned' = "None" => Len(buf') <= MostHeld
  BY <1>3, <1>4
<1>7. returned' \in {"nothing", "None", "Record"} /\ finished' \in BOOLEAN
  BY <1>4 DEF IInv
<1>8. [text |-> log', separator |-> given_separator'] \in Logs
  BY <1>4 DEF IInv
<1> QED BY <1>5, <1>6, <1>7, <1>8 DEF IInv

LEMMA NextInv == IInv /\ [Next]_vars => IInv'
<1> SUFFICES ASSUME IInv, [Next]_vars PROVE IInv'
  OBVIOUS
<1>0. /\ LogInv(log, given_separator, fed, buf, searched, prefix_truncated, dropped, records)
      /\ [text |-> log, separator |-> given_separator] \in Logs
      /\ finished \in BOOLEAN
  BY DEF IInv
<1>1. ASSUME NEW n \in Chunks, feed(n) PROVE IInv'
  <2> DEFINE upto == Lesser(fed + n, Len(log))
  <2>1. upto \in fed .. Len(log)
    <3>1. n \in Nat /\ fed \in Nat /\ Len(log) \in Nat /\ fed <= Len(log)
      BY <1>0, LogReaderAssumption DEF LogInv
    <3> QED BY <3>1 DEF Lesser
  <2>2. LogInv(log, given_separator, upto, buf \o Slice(log, fed, upto), searched,
               prefix_truncated, dropped, records)
    BY <1>0, <2>1, FeedKeeps
  <2>3. /\ fed' = upto /\ buf' = buf \o Slice(log, fed, upto) /\ returned' = "nothing"
        /\ log' = log /\ given_separator' = given_separator /\ searched' = searched
        /\ prefix_truncated' = prefix_truncated /\ finished' = finished
        /\ dropped' = dropped /\ records' = records
    BY <1>1 DEF feed
  <2> HIDE DEF upto
  <2> QED BY <1>0, <2>2, <2>3 DEF IInv
<1>2. CASE next_record
  BY <1>2, ReadStep DEF next_record
<1>3. CASE finish
  BY <1>0, <1>3 DEF IInv, finish
<1>4. CASE drain
  BY <1>4, ReadStep DEF drain
<1>5. CASE UNCHANGED vars
  BY <1>5 DEF IInv, vars
<1> QED BY <1>1, <1>2, <1>3, <1>4, <1>5 DEF Next

LEMMA Invariance == Spec => []IInv
<1> QED BY InitInv, NextInv, PTL DEF Spec

-----------------------------------------------------------------------------
(* The theorems. *)

\* The reader's fields keep their types: searched stays within the buffer, and
\* what is dropped is what was fed.
THEOREM TypeCorrect == Spec => []TypeOK
<1>1. IInv => TypeOK
  <2> SUFFICES ASSUME IInv PROVE TypeOK
    OBVIOUS
  <2>1. /\ [text |-> log, separator |-> given_separator] \in Logs
        /\ finished \in BOOLEAN /\ returned \in {"nothing", "None", "Record"}
        /\ log \in Seq(Byte) /\ fed \in 0 .. Len(log) /\ dropped \in 0 .. fed
        /\ buf = Slice(log, dropped, fed) /\ searched \in 0 .. Len(buf)
        /\ records \in Seq(LogRecord) /\ prefix_truncated = (dropped > LastEnd(records))
    BY DEF IInv, LogInv
  <2>2. buf \in Seq(Byte)
    <3>1. dropped \in Nat /\ fed \in Nat /\ dropped <= fed /\ fed <= Len(log)
      BY <2>1
    <3> QED BY <2>1, <3>1, ByteSlices
  <2>3. prefix_truncated \in BOOLEAN
    BY <2>1
  <2> QED BY <2>1, <2>2, <2>3 DEF TypeOK, LogRecord
<1> QED BY <1>1, Invariance, PTL

\* A reader that next_record left waiting, or that finish drained, holds no
\* more than a prefix, a message and the start of the next, whatever the log
\* holds and however it is fed.
THEOREM BufferIsBounded == Spec => []BoundedBuffer
<1>1. IInv => BoundedBuffer
  BY Limits DEF IInv, BoundedBuffer, MostHeld
<1> QED BY <1>1, Invariance, PTL

\* The records of any log, in any chunks, tile it: prefix, message and line
\* break follow one another, and what a prefix leaves out it reports.
THEOREM RecordsTile == Spec => []RecordsTileTheLog
<1>1. IInv => RecordsTileTheLog
  <2> SUFFICES ASSUME IInv, NEW i \in 1 .. Len(records)
               PROVE  RecordTiles(log, EndBefore(i), records[i])
    BY DEF RecordsTileTheLog, RecordTiles, GapBefore
  <2>1. RecordTiles(log, EndIn(records, i), records[i])
    BY DEF IInv, LogInv
  <2>2. EndBefore(i) = EndIn(records, i)
    BY DEF EndBefore, EndIn
  <2> QED BY <2>1, <2>2
<1> QED BY <1>1, Invariance, PTL

-----------------------------------------------------------------------------
(* No start is passed over: check answers the same of more bytes, unless it *)
(* waits for them.                                                          *)

LEMMA RunEndStable ==
  ASSUME NEW a \in Seq(Byte), NEW b \in Seq(Byte), Begins(a, b),
         NEW from \in Nat, from <= Len(a), NEW S
  PROVE  /\ RunEnd(a, from, S) < Len(a) => RunEnd(b, from, S) = RunEnd(a, from, S)
         /\ RunEnd(a, from, S) <= RunEnd(b, from, S)
<1> DEFINE v == RunEnd(a, from, S)
           w == RunEnd(b, from, S)
<1>1. /\ Len(a) \in Nat /\ Len(b) \in Nat /\ Len(a) <= Len(b) /\ from <= Len(b)
      /\ \A i \in 0 .. Len(a) - 1 : At(a, i) = At(b, i)
  BY DEF Begins, At
<1>2. /\ v \in from .. Len(a) /\ (v < Len(a) => At(a, v) \notin S)
      /\ \A i \in from .. v - 1 : At(a, i) \in S
  BY RunEndProperties
<1>3. /\ w \in from .. Len(b) /\ (w < Len(b) => At(b, w) \notin S)
      /\ \A i \in from .. w - 1 : At(b, i) \in S
  BY <1>1, RunEndProperties
<1> HIDE DEF v, w
<1>4. ~(w < v)
  <2> SUFFICES ASSUME w < v PROVE FALSE
    OBVIOUS
  <2>1. w \in from .. v - 1 /\ w \in 0 .. Len(a) - 1 /\ w < Len(b)
    BY <1>1, <1>2, <1>3
  <2> QED BY <1>1, <1>2, <1>3, <2>1
<1>5. v < Len(a) => ~(v < w)
  <2> SUFFICES ASSUME v < Len(a), v < w PROVE FALSE
    OBVIOUS
  <2>1. v \in from .. w - 1 /\ v \in 0 .. Len(a) - 1
    BY <1>1, <1>2, <1>3
  <2> QED BY <1>1, <1>2, <1>3, <2>1
<1> QED BY <1>2, <1>3, <1>4, <1>5 DEF v, w

LEMMA CheckTagStable ==
  ASSUME NEW a \in Seq(Byte), NEW b \in Seq(Byte), Begins(a, b),
         NEW from \in Nat, from <= Len(a), NEW s,
         CheckTag(a, from, s) # Pending
  PROVE  CheckTag(b, from, s) = CheckTag(a, from, s)
<1> DEFINE v == RunEnd(a, from, Digit)
           w == RunEnd(b, from, Digit)
<1>1. /\ Len(a) \in Nat /\ Len(b) \in Nat /\ Len(a) <= Len(b) /\ from <= Len(b)
      /\ \A i \in 0 .. Len(a) - 1 : At(a, i) = At(b, i)
  BY DEF Begins, At
<1>2. v \in from .. Len(a) /\ w \in from .. Len(b)
  BY <1>1, RunEndProperties
<1>3. v <= w /\ (v < Len(a) => w = v)
  BY RunEndStable
<1>4. /\ CheckTag(a, from, s) = IF v - from > MAX_TAG_DIGITS THEN NotStart
                                ELSE IF v = Len(a) THEN Pending
                                ELSE IF v > from /\ At(a, v) = EQUALS THEN Start(s)
                                ELSE NotStart
      /\ CheckTag(b, from, s) = IF w - from > MAX_TAG_DIGITS THEN NotStart
                                ELSE IF w = Len(b) THEN Pending
                                ELSE IF w > from /\ At(b, w) = EQUALS THEN Start(s)
                                ELSE NotStart
  BY Zenon DEF CheckTag
<1> HIDE DEF v, w
<1>5. CASE v - from > MAX_TAG_DIGITS
  <2>1. w - from > MAX_TAG_DIGITS
    BY <1>2, <1>3, <1>5, Limits
  <2> QED BY <1>4, <1>5, <2>1
<1>6. CASE ~(v - from > MAX_TAG_DIGITS)
  <2>1. v < Len(a)
    <3>1. v # Len(a)
      BY <1>4, <1>6
    <3> QED BY <1>1, <1>2, <3>1
  <2>2. w = v /\ v # Len(b) /\ v # Len(a) /\ At(a, v) = At(b, v)
    BY <1>1, <1>2, <1>3, <2>1
  <2> QED BY <1>4, <1>6, <2>2
<1> QED BY <1>5, <1>6

LEMMA CheckSeparatorStable ==
  ASSUME NEW a \in Seq(Byte), NEW b \in Seq(Byte), Begins(a, b),
         NEW v \in Nat, v < Len(a), NEW s,
         CheckSeparator(a, v, s) # Pending
  PROVE  CheckSeparator(b, v, s) = CheckSeparator(a, v, s)
<1>1. /\ Len(a) \in Nat /\ Len(b) \in Nat /\ Len(a) <= Len(b)
      /\ \A i \in 0 .. Len(a) - 1 : At(a, i) = At(b, i)
  BY DEF Begins, At
<1>2. v # Len(a) /\ v # Len(b) /\ At(a, v) = At(b, v)
  BY <1>1
<1> DEFINE Answer(x) == IF s # None
                          THEN IF At(x, v) = s THEN Start(s) ELSE NotStart
                        ELSE IF At(x, v) \in {LF, CR} THEN NotStart
                        ELSE IF At(x, v) # CARET THEN Start(At(x, v))
                        ELSE IF v + 1 = Len(x) THEN Pending
                        ELSE IF At(x, v + 1) = LETTER_A THEN Start(CaretA)
                        ELSE Start(CARET)
<1>3. CheckSeparator(a, v, s) = Answer(a) /\ CheckSeparator(b, v, s) = Answer(b)
  BY <1>2, Zenon DEF CheckSeparator
<1>4. CASE s # None \/ At(a, v) \in {LF, CR} \/ At(a, v) # CARET
  <2>1. Answer(a) = Answer(b)
    BY <1>2, <1>4, Zenon
  <2> QED BY <1>3, <2>1
<1>5. CASE ~(s # None \/ At(a, v) \in {LF, CR} \/ At(a, v) # CARET)
  <2>1. v + 1 # Len(a)
    BY <1>3, <1>5, Zenon
  <2>2. v + 1 # Len(b) /\ At(a, v + 1) = At(b, v + 1)
    BY <1>1, <2>1
  <2>3. Answer(a) = Answer(b)
    BY <1>2, <1>5, <2>1, <2>2, Zenon
  <2> QED BY <1>3, <2>3
<1> QED BY <1>4, <1>5

\* What is decided of a candidate stays decided when more bytes come.
LEMMA CheckStable ==
  ASSUME NEW a \in Seq(Byte), NEW b \in Seq(Byte), Begins(a, b),
         NEW s \in Byte \cup {None}, check(a, s) # Pending
  PROVE  check(b, s) = check(a, s)
<1>1. /\ Len(a) \in Nat /\ Len(b) \in Nat /\ Len(a) <= Len(b) /\ PREFIX_LEN = 5
      /\ \A k \in 1 .. Len(a) : a[k] = b[k]
  BY DEF Begins, PREFIX_LEN
<1>2. CASE ~MatchesPrefix(a, 0, Lesser(Len(a), PREFIX_LEN))
  <2>1. PICK j \in 1 .. Lesser(Len(a), PREFIX_LEN) : a[0 + j] # BEGIN_STRING_PREFIX[j]
    BY <1>2, Zenon DEF MatchesPrefix
  <2>2. j \in 1 .. Lesser(Len(b), PREFIX_LEN) /\ a[0 + j] = b[0 + j]
    BY <1>1 DEF Lesser
  <2>3. ~MatchesPrefix(b, 0, Lesser(Len(b), PREFIX_LEN))
    BY <2>1, <2>2, Zenon DEF MatchesPrefix
  <2> QED BY <1>2, <2>3 DEF check
<1>3. CASE MatchesPrefix(a, 0, Lesser(Len(a), PREFIX_LEN))
  <2>1. ~(Len(a) < PREFIX_LEN)
    BY <1>3 DEF check
  <2>2. MatchesPrefix(b, 0, Lesser(Len(b), PREFIX_LEN)) /\ ~(Len(b) < PREFIX_LEN)
    <3>1. Lesser(Len(a), PREFIX_LEN) = 5 /\ Lesser(Len(b), PREFIX_LEN) = 5
      <4>1. \A n \in Nat : ~(n < 5) => Lesser(n, 5) = 5
        BY DEF Lesser
      <4>2. ~(Len(a) < 5) /\ ~(Len(b) < 5)
        BY <1>1, <2>1
      <4> QED BY <1>1, <4>1, <4>2
    <3>2. \A j \in 1 .. 5 : a[0 + j] = b[0 + j]
      BY <1>1, <2>1
    <3> QED BY <1>1, <1>3, <2>1, <3>1, <3>2 DEF MatchesPrefix
  <2> DEFINE v == RunEnd(a, PREFIX_LEN, BeginStringByte)
             w == RunEnd(b, PREFIX_LEN, BeginStringByte)
  <2>3. check(a, s) = CheckValue(a, v, s) /\ check(b, s) = CheckValue(b, w, s)
    BY <1>3, <2>1, <2>2 DEF check
  <2>4. /\ v \in 5 .. Len(a) /\ w \in 5 .. Len(b) /\ v <= w
        /\ v < Len(a) => w = v
    <3>1. PREFIX_LEN \in Nat /\ PREFIX_LEN <= Len(a) /\ PREFIX_LEN <= Len(b)
      BY <1>1, <2>1
    <3> QED BY <1>1, <3>1, RunEndProperties, RunEndStable
  <2> HIDE DEF v, w
  <2>5. CASE v > MAX_BEGIN_STRING_LEN
    <3>1. w > MAX_BEGIN_STRING_LEN
      BY <2>4, <2>5, Limits
    <3> QED BY <2>3, <2>5, <3>1 DEF CheckValue
  <2>6. CASE ~(v > MAX_BEGIN_STRING_LEN)
    <3> DEFINE x == CheckSeparator(a, v, s)
               y == CheckSeparator(b, v, s)
    <3>1. check(a, s) = CheckSeparated(a, v, x)
      BY <2>3, <2>6 DEF CheckValue
    <3>2. x # Pending
      <4>1. CheckSeparated(a, v, Pending) = Pending
        BY DEF CheckSeparated, Pending
      <4> HIDE DEF x
      <4> QED BY <3>1, <4>1
    <3>3. v < Len(a)
      <4>1. v # Len(a)
        BY <3>2 DEF CheckSeparator
      <4> QED BY <1>1, <2>4, <4>1
    <3>4. w = v /\ y = x
      <4>1. v \in Nat
        BY <2>4
      <4> QED BY <2>4, <3>2, <3>3, <4>1, CheckSeparatorStable
    <3>5. check(b, s) = CheckSeparated(b, v, x)
      <4> HIDE DEF x, y
      <4>1. check(b, s) = CheckValue(b, v, s)
        BY <2>3, <3>4
      <4> QED BY <2>6, <3>4, <4>1 DEF CheckValue, y
    <3>6. CASE x.kind # "Start"
      <4> HIDE DEF x
      <4> QED BY <3>1, <3>5, <3>6 DEF CheckSeparated
    <3>7. CASE x.kind = "Start"
      <4> DEFINE from == v + (IF x.separator = CaretA THEN 2 ELSE 1)
      <4>1. /\ check(a, s) = CheckTag(a, from, x.separator)
            /\ check(b, s) = CheckTag(b, from, x.separator)
        <5> HIDE DEF x
        <5> QED BY <3>1, <3>5, <3>7 DEF CheckSeparated
      <4>2. from \in Nat /\ from <= Len(a)
        <5>1. x.separator = CaretA => v + 1 < Len(a)
          <6> SUFFICES ASSUME x.separator = CaretA PROVE v + 1 # Len(a)
            BY <1>1, <2>4, <3>3
          <6> DEFINE found == At(a, v)
          <6>1. found \in Byte
            <7>1. v + 1 \in 1 .. Len(a)
              BY <1>1, <2>4, <3>3
            <7> QED BY <7>1, ElementOfSeq DEF At
          <6>2. x = IF s # None
                      THEN IF found = s THEN Start(s) ELSE NotStart
                    ELSE IF found \in {LF, CR} THEN NotStart
                    ELSE IF found # CARET THEN Start(found)
                    ELSE IF v + 1 = Len(a) THEN Pending
                    ELSE IF At(a, v + 1) = LETTER_A THEN Start(CaretA)
                    ELSE Start(CARET)
            <7>1. v # Len(a)
              BY <1>1, <2>4, <3>3
            <7> QED BY <7>1, Zenon DEF CheckSeparator
          <6>3. s # None => s \in Byte
            OBVIOUS
          <6>4. CaretA \notin Byte
            BY DEF CaretA, Byte
          <6> HIDE DEF x, found
          <6>5. \A c : Start(c).separator = c /\ Start(c).kind = "Start"
            BY DEF Start
          <6>6. x # NotStart
            BY <3>7 DEF NotStart
          <6> QED BY <3>2, <6>1, <6>2, <6>3, <6>4, <6>5, <6>6, Zenon
        <5> HIDE DEF x
        <5> QED BY <1>1, <2>4, <3>3, <5>1
      <4> HIDE DEF from, x
      <4> QED BY <4>1, <4>2, CheckTagStable
    <3> QED BY <3>6, <3>7
  <2> QED BY <2>5, <2>6
<1> QED BY <1>2, <1>3

\* What find_start decides: no candidate before the one it gives is one, and
\* at the end of the log it gives only a start.
Candidate(b, i) == At(b, i) = 56 /\ (i > 0 => At(b, i - 1) \notin Digit)
Undecided(x, at_end) == x.kind # "Start" /\ (x.kind = "Pending" => at_end)

LEMMA FindStartDecides ==
  ASSUME NEW b \in Seq(Byte), NEW from \in Nat, NEW override \in Byte \cup {None},
         NEW at_end \in BOOLEAN
  PROVE  LET x == find_start(b, from, Len(b), override, at_end)
         IN  /\ \A i \in from .. PrefixLen(b, x) - 1 :
                  Candidate(b, i) => Undecided(check(Slice(b, i, Len(b)), override), at_end)
             /\ at_end => x.kind # "Pending"
             /\ x.kind = "Found" =>
                  /\ x.at \in from .. Len(b) - 1 /\ Candidate(b, x.at)
                  /\ check(Slice(b, x.at, Len(b)), override).kind = "Start"
             /\ x.kind # "Found" /\ at_end => PrefixLen(b, x) = Len(b)
<1> DEFINE D == {i \in from .. Len(b) - 1 : /\ At(b, i) = 56
                                            /\ i > 0 => At(b, i - 1) \notin Digit}
           checked == [at \in D |-> check(Slice(b, at, Len(b)), override)]
           decided == {at \in DOMAIN checked :
                         \/ checked[at].kind = "Start"
                         \/ checked[at].kind = "Pending" /\ ~at_end}
           first == Least(decided)
           x == find_start(b, from, Len(b), override, at_end)
<1>0. Len(b) \in Nat
  OBVIOUS
<1>1. x = IF decided = {} THEN [kind |-> "NotFound"]
          ELSE IF checked[first].kind = "Pending" THEN [kind |-> "Pending", at |-> first]
          ELSE [kind |-> "Found", at |-> first, separator |-> checked[first].separator]
  BY Zenon DEF find_start, FirstDecided
<1>2. /\ DOMAIN checked = D /\ \A i \in D : checked[i] = check(Slice(b, i, Len(b)), override)
      /\ D \subseteq from .. Len(b) - 1
      /\ \A i \in from .. Len(b) - 1 : i \in D <=> Candidate(b, i)
  <2>1. \A i \in from .. Len(b) - 1 : i \in D <=> Candidate(b, i)
    BY DEF Candidate
  <2> QED BY <2>1
<1> HIDE DEF checked, D
<1>3. \A i \in D : i \in decided \/ Undecided(check(Slice(b, i, Len(b)), override), at_end)
  BY <1>2, Zenon DEF Undecided
<1>4. CASE decided = {}
  <2>1. x = [kind |-> "NotFound"]
    BY <1>1, <1>4
  <2>2. \A i \in from .. Len(b) - 1 :
          Candidate(b, i) => Undecided(check(Slice(b, i, Len(b)), override), at_end)
    BY <1>2, <1>3, <1>4, Zenon
  <2> HIDE DEF x
  <2>3. x.kind = "NotFound" /\ PrefixLen(b, x) = Len(b)
    BY <2>1 DEF PrefixLen
  <2>4. /\ \A i \in from .. PrefixLen(b, x) - 1 :
             Candidate(b, i) => Undecided(check(Slice(b, i, Len(b)), override), at_end)
        /\ x.kind # "Found" /\ x.kind # "Pending"
    BY <2>2, <2>3
  <2> QED BY <2>3, <2>4, Zenon DEF x
<1>5. CASE decided # {}
  <2>1. /\ first \in decided /\ \A n \in decided : first <= n
    <3>1. decided \subseteq Nat
      BY <1>2
    <3> HIDE DEF decided
    <3> QED BY <1>5, <3>1, LeastProperties
  <2>2. /\ first \in D
        /\ \/ checked[first].kind = "Start"
           \/ checked[first].kind = "Pending" /\ ~at_end
    <3>1. \A n \in decided : /\ n \in DOMAIN checked
                             /\ \/ checked[n].kind = "Start"
                                \/ checked[n].kind = "Pending" /\ ~at_end
      BY Zenon
    <3> HIDE DEF decided, first
    <3> QED BY <1>2, <2>1, <3>1
  <2>3. \A i \in from .. first - 1 :
          Candidate(b, i) => Undecided(check(Slice(b, i, Len(b)), override), at_end)
    <3> SUFFICES ASSUME NEW i \in from .. first - 1, Candidate(b, i)
                 PROVE  Undecided(check(Slice(b, i, Len(b)), override), at_end)
      OBVIOUS
    <3>1. first \in from .. Len(b) - 1
      BY <1>2, <2>2
    <3> HIDE DEF first, decided
    <3>2. i \in from .. Len(b) - 1 /\ ~(first <= i)
      BY <1>0, <3>1
    <3> QED BY <1>2, <1>3, <2>1, <3>2
  <2> HIDE DEF first, decided, x
  <2>4. x.at = first /\ x.kind \in {"Pending", "Found"}
        /\ (x.kind = "Pending" <=> checked[first].kind = "Pending")
    <3>1. CASE checked[first].kind = "Pending"
      BY <1>1, <1>5, <3>1
    <3>2. CASE checked[first].kind # "Pending"
      BY <1>1, <1>5, <3>2
    <3> QED BY <3>1, <3>2
  <2>5. PrefixLen(b, x) = first
    BY <2>4 DEF PrefixLen
  <2>6. \A i \in from .. PrefixLen(b, x) - 1 :
          Candidate(b, i) => Undecided(check(Slice(b, i, Len(b)), override), at_end)
    BY <2>3, <2>5
  <2>7. at_end => x.kind = "Found"
    BY <2>2, <2>4
  <2>8. first \in from .. Len(b) - 1 /\ Candidate(b, first)
    BY <1>2, <2>2
  <2>9. x.kind = "Found" => check(Slice(b, first, Len(b)), override).kind = "Start"
    BY <1>2, <2>2, <2>4
  <2> QED BY <2>4, <2>6, <2>7, <2>8, <2>9 DEF x
<1> QED BY <1>4, <1>5

\* A message starts at offset q of the log l, when the record before it ends
\* at from, and it is the first after that record that does.
StartsAt(l, s, from, q) ==
  /\ At(l, q) = 56
  /\ q > from => At(l, q - 1) \notin Digit
  /\ check(Slice(l, q, Len(l)), s).kind = "Start"

FirstStart(l, s, from, q) ==
  StartsAt(l, s, from, q) /\ \A k \in from .. q - 1 : ~StartsAt(l, s, from, k)

\* Each record's message is the first start after the record before it, and no
\* message starts where the reader has searched since the last.
SearchInv(l, s, sd, d, rs) ==
  /\ \A i \in 1 .. Len(rs) : FirstStart(l, s, EndIn(rs, i), rs[i].from)
  /\ \A q \in LastEnd(rs) .. (d + sd) - 1 : ~StartsAt(l, s, LastEnd(rs), q)

\* What the buffer shows of a candidate is what the log does: the bytes before
\* it that are lost, and those still to come, change nothing.
ShowsAt(l, s, from, d, f, b, i) ==
  LET x == check(Slice(b, i, Len(b)), s)
  IN  /\ StartsAt(l, s, from, d + i) => Candidate(b, i)
      /\ StartsAt(l, s, from, d + i) => x.kind = "Start" \/ x = Pending
      /\ Candidate(b, i) /\ x.kind = "Start" => StartsAt(l, s, from, d + i)
      /\ StartsAt(l, s, from, d + i) /\ f = Len(l) => x.kind = "Start"

LEMMA BufferShows ==
  ASSUME NEW l \in Seq(Byte), NEW s \in Byte \cup {None}, NEW from \in Nat, NEW d \in Nat,
         NEW f \in Nat, from <= d, d <= f, f <= Len(l), NEW i \in Nat, d + i < f,
         d > from => i > 0
  PROVE  ShowsAt(l, s, from, d, f, Slice(l, d, f), i)
<1> DEFINE b == Slice(l, d, f)
           u == Slice(l, d + i, f)
           w == Slice(l, d + i, Len(l))
           x == check(Slice(b, i, Len(b)), s)
           y == check(w, s)
<1>0. Len(l) \in Nat /\ d + i \in Nat /\ d + i <= f /\ d + i <= Len(l) /\ Len(l) <= Len(l)
  OBVIOUS
<1>1. b \in Seq(Byte) /\ Len(b) = f - d /\ \A k \in 1 .. f - d : b[k] = l[d + k]
  BY ByteSlices, Zenon
<1>2. /\ u \in Seq(Byte) /\ Len(u) = f - (d + i)
      /\ \A k \in 1 .. f - (d + i) : u[k] = l[(d + i) + k]
  BY <1>0, ByteSlices, Zenon
<1>3. /\ w \in Seq(Byte) /\ Len(w) = Len(l) - (d + i)
      /\ \A k \in 1 .. Len(l) - (d + i) : w[k] = l[(d + i) + k]
  BY <1>0, ByteSlices, Zenon
<1>4. Slice(b, i, Len(b)) = u
  <2>1. \A m, n \in Nat : m <= n /\ n <= f - d =>
          Slice(Slice(l, d, f), m, n) = Slice(l, d + m, d + n)
    BY SliceOfSlice
  <2>2. i <= f - d /\ f - d \in Nat /\ f - d <= f - d /\ d + (f - d) = f
    BY <1>0
  <2>3. Slice(b, i, f - d) = Slice(l, d + i, d + (f - d))
    BY <2>1, <2>2
  <2> QED BY <1>1, <2>2, <2>3
<1>5. Begins(u, w)
  <2> HIDE DEF u, w
  <2>1. Len(u) <= Len(w) /\ f - (d + i) <= Len(l) - (d + i)
    BY <1>0, <1>2, <1>3
  <2>2. \A k \in 1 .. Len(u) : u[k] = w[k]
    <3> TAKE k \in 1 .. Len(u)
    <3>1. k \in 1 .. f - (d + i) /\ k \in 1 .. Len(l) - (d + i)
      BY <1>0, <1>2
    <3> QED BY <1>2, <1>3, <3>1
  <2> QED BY <2>1, <2>2 DEF Begins
<1>6. Candidate(b, i) <=> At(l, d + i) = 56 /\ (d + i > from => At(l, (d + i) - 1) \notin Digit)
  <2>1. At(b, i) = At(l, d + i)
    <3> HIDE DEF b
    <3>1. i + 1 \in 1 .. f - d /\ d + (i + 1) = (d + i) + 1
      BY <1>0
    <3> QED BY <1>1, <3>1 DEF At
  <2>2. i > 0 => At(b, i - 1) = At(l, (d + i) - 1)
    <3> HIDE DEF b
    <3>1. i > 0 => (i - 1) + 1 \in 1 .. f - d /\ d + ((i - 1) + 1) = ((d + i) - 1) + 1
      BY <1>0
    <3> QED BY <1>1, <3>1 DEF At
  <2>3. i > 0 <=> d + i > from
    OBVIOUS
  <2> HIDE DEF b
  <2> QED BY <2>1, <2>2, <2>3 DEF Candidate
<1>7. x = check(u, s) /\ (x # Pending => y = x)
  <2> HIDE DEF u, w
  <2>1. check(u, s) # Pending => check(w, s) = check(u, s)
    BY <1>2, <1>3, <1>5, CheckStable
  <2> QED BY <1>4, <2>1
<1>8. f = Len(l) => y = x
  BY <1>7
<1>9. StartsAt(l, s, from, d + i) <=> Candidate(b, i) /\ y.kind = "Start"
  BY <1>6 DEF StartsAt
<1> HIDE DEF b, x, y
<1>10. Pending.kind # "Start"
  BY DEF Pending
<1>11. /\ StartsAt(l, s, from, d + i) => Candidate(b, i)
       /\ StartsAt(l, s, from, d + i) => x.kind = "Start" \/ x = Pending
       /\ Candidate(b, i) /\ x.kind = "Start" => StartsAt(l, s, from, d + i)
       /\ StartsAt(l, s, from, d + i) /\ f = Len(l) => x.kind = "Start"
  BY <1>7, <1>8, <1>9, <1>10
<1> QED BY <1>11 DEF b, x, ShowsAt

\* What a read leaves searched, or the record it returns, is what the search
\* of the whole log would show.
LEMMA ReadFinds ==
  ASSUME NEW l, NEW s, NEW f, NEW b, NEW sd, NEW t, NEW d, NEW rs,
         LogInv(l, s, f, b, sd, t, d, rs), SearchInv(l, s, sd, d, rs),
         NEW at_end \in BOOLEAN, at_end => f = Len(l)
  PROVE  LET X == read(Reader(b, sd, t, d, s), at_end)
         IN  /\ SearchInv(l, s, X.reader.searched, X.reader.dropped, rs \o X.record)
             /\ at_end /\ X.record = <<>> => X.reader.dropped + X.reader.searched = Len(l)
<1> DEFINE R == Reader(b, sd, t, d, s)
           X == read(R, at_end)
           from == LastEnd(rs)
           start == find_start(b, sd, Len(b), s, at_end)
           p == PrefixLen(b, start)
<1>0. /\ l \in Seq(Byte) /\ s \in Byte \cup {None} /\ Len(l) \in Nat
      /\ f \in Nat /\ f <= Len(l) /\ d \in Nat /\ d <= f /\ b = Slice(l, d, f)
      /\ sd \in 0 .. Len(b) /\ sd \in Nat
      /\ rs \in Seq(LogRecord) /\ Len(rs) \in Nat
      /\ from \in Nat /\ from <= d /\ t = (d > from)
      /\ d > from => sd = MAX_PREFIX_LEN
  BY DEF LogInv
<1>1. b \in Seq(Byte) /\ Len(b) = f - d /\ Len(b) \in Nat
  <2>1. Slice(l, d, f) \in Seq(Byte) /\ Len(Slice(l, d, f)) = f - d
    BY <1>0, ByteSlices, Zenon
  <2> QED BY <1>0, <2>1
<1>2. /\ R.buf = b /\ R.searched = sd /\ R.prefix_truncated = t /\ R.dropped = d
      /\ R.override = s
  BY DEF Reader
<1> HIDE DEF R
<1>3. TakesNone(R, at_end, X) \/ TakesOne(R, at_end, X)
  <2>1. t \in BOOLEAN
    BY <1>0
  <2>2. ReaderOK(R)
    BY <1>0, <1>1, <1>2, <2>1 DEF ReaderOK
  <2> QED BY <2>2, ReadCases
<1>4. Sought(R, at_end) = start
  BY <1>2 DEF Sought
<1>5. /\ \A i \in sd .. p - 1 :
           Candidate(b, i) => Undecided(check(Slice(b, i, Len(b)), s), at_end)
      /\ start.kind = "Found" =>
           /\ start.at \in sd .. Len(b) - 1 /\ Candidate(b, start.at)
           /\ check(Slice(b, start.at, Len(b)), s).kind = "Start"
      /\ start.kind # "Found" /\ at_end => p = Len(b)
  <2>1. b \in Seq(Byte) /\ sd \in Nat /\ s \in Byte \cup {None}
    BY <1>0, <1>1
  <2> QED BY <2>1, FindStartDecides, Zenon
<1>6. \A i \in sd .. Len(b) - 1 :
         LET x == check(Slice(b, i, Len(b)), s)
         IN  /\ StartsAt(l, s, from, d + i) => Candidate(b, i)
             /\ StartsAt(l, s, from, d + i) => x.kind = "Start" \/ x = Pending
             /\ Candidate(b, i) /\ x.kind = "Start" => StartsAt(l, s, from, d + i)
             /\ StartsAt(l, s, from, d + i) /\ f = Len(l) => x.kind = "Start"
  <2> TAKE i \in sd .. Len(b) - 1
  <2>1. i \in Nat /\ d + i < f /\ (d > from => i > 0)
    BY <1>0, <1>1, Limits
  <2>2. from \in Nat /\ i \in Nat /\ b = Slice(l, d, f)
    BY <1>0, <2>1
  <2> HIDE DEF from
  <2>3. ShowsAt(l, s, from, d, f, Slice(l, d, f), i)
    BY <1>0, <2>1, <2>2, BufferShows
  <2> QED BY <2>2, <2>3, Zenon DEF ShowsAt
<1> HIDE DEF X, start, p
<1>7. ASSUME p \in sd .. Len(b)
      PROVE  \A k \in from .. (d + p) - 1 : ~StartsAt(l, s, from, k)
  <2> SUFFICES ASSUME NEW q \in from .. (d + p) - 1, StartsAt(l, s, from, q)
               PROVE  FALSE
    OBVIOUS
  <2>1. CASE q <= (d + sd) - 1
    <3>1. q \in from .. (d + sd) - 1
      BY <1>0, <2>1
    <3> QED BY <3>1 DEF SearchInv
  <2>2. CASE ~(q <= (d + sd) - 1)
    <3> DEFINE i == q - d
               x == check(Slice(b, i, Len(b)), s)
    <3>1. i \in sd .. p - 1 /\ i \in sd .. Len(b) - 1 /\ d + i = q
      BY <1>0, <1>1, <1>7, <2>2
    <3> HIDE DEF i
    <3>2. /\ Candidate(b, i) /\ (x.kind = "Start" \/ x = Pending)
          /\ f = Len(l) => x.kind = "Start"
      BY <1>6, <3>1
    <3>3. Undecided(x, at_end)
      BY <1>5, <3>1, <3>2
    <3> HIDE DEF x
    <3>4. x.kind # "Start" /\ x.kind = "Pending" /\ at_end
      BY <3>2, <3>3 DEF Undecided, Pending
    <3> QED BY <3>2, <3>4
  <2> QED BY <2>1, <2>2
<1> HIDE DEF from
<1>8. \A i \in 1 .. Len(rs) : FirstStart(l, s, EndIn(rs, i), rs[i].from)
  BY DEF SearchInv
<1>9. CASE TakesNone(R, at_end, X)
  <2>1. /\ p \in sd .. Len(b) /\ at_end => start.kind # "Found"
        /\ X = [reader |-> CapPrefix(R, p), record |-> <<>>]
    BY <1>2, <1>4, <1>9, Zenon DEF TakesNone, p
  <2>2. p \in Nat /\ Excess(p) \in Nat
    <3>1. p \in Nat
      BY <1>0, <1>1, <1>2, <1>4, <1>9 DEF TakesNone, p
    <3> QED BY <3>1, ExcessProperties
  <2>3. /\ X.record = <<>> /\ X.reader.searched = p - Excess(p)
        /\ X.reader.dropped = d + Excess(p)
    BY <1>2, <2>1 DEF CapPrefix, Reader
  <2>4. rs \o X.record = rs
    BY <1>0, <2>3, ConcatEmptySeq
  <2>5. X.reader.dropped + X.reader.searched = d + p
    BY <1>0, <2>2, <2>3
  <2>6. p \in sd .. Len(b)
    BY <1>2, <1>4, <1>9 DEF TakesNone, p
  <2>7. SearchInv(l, s, X.reader.searched, X.reader.dropped, rs)
    <3>1. \A k \in from .. (d + p) - 1 : ~StartsAt(l, s, from, k)
      BY <1>7, <2>6
    <3>2. \A k \in from .. (X.reader.dropped + X.reader.searched) - 1 : ~StartsAt(l, s, from, k)
      <4>1. \A n : n = d + p => \A k \in from .. n - 1 : ~StartsAt(l, s, from, k)
        BY <3>1
      <4> QED BY <2>5, <4>1
    <3> QED BY <1>8, <3>2, Zenon DEF SearchInv, from
  <2>8. at_end => X.reader.dropped + X.reader.searched = Len(l)
    <3> SUFFICES ASSUME at_end PROVE d + p = Len(l)
      BY <2>5
    <3>1. start.kind # "Found"
      BY <1>4, <1>9 DEF TakesNone
    <3> QED BY <1>0, <1>1, <1>5, <3>1
  <2> QED BY <2>4, <2>7, <2>8 DEF X, R
<1>10. CASE TakesOne(R, at_end, X)
  <2>1. PICK q \in R.searched .. Len(R.buf), len \in Nat, consumed \in Nat,
             message \in Seq(Byte), diagnostics \in Seq(LogDiagnostic), separator \in Byte :
            /\ q = PrefixLen(R.buf, Sought(R, at_end)) /\ Sought(R, at_end).kind = "Found"
            /\ 1 <= len /\ len <= consumed /\ q + consumed <= Len(R.buf)
            /\ X = [reader |-> Reader(Slice(R.buf, q + consumed, Len(R.buf)), 0, FALSE,
                                      R.dropped + (q + consumed), R.override),
                    record |-> <<Record(Slice(R.buf, Excess(q), q), message, diagnostics,
                                        R.dropped + q, len, consumed, separator)>>]
            /\ message \in {Slice(R.buf, q, q + len), Restored(Slice(R.buf, q, q + len))}
            /\ Slice(R.buf, q + len, q + consumed) \in {<<>>, <<LF>>, <<CR, LF>>}
            /\ (\E i \in 1 .. Len(diagnostics) : diagnostics[i] = "PrefixTruncated")
                 <=> (R.prefix_truncated \/ Excess(q) > 0)
    BY <1>10, Zenon DEF TakesOne
  <2>2. q = p /\ start.kind = "Found" /\ p \in sd .. Len(b) /\ p = start.at
    BY <1>2, <1>4, <2>1 DEF p, PrefixLen
  <2> DEFINE r == Record(Slice(b, Excess(p), p), message, diagnostics, d + p, len, consumed,
                         separator)
             N == Reader(Slice(b, p + consumed, Len(b)), 0, FALSE, d + (p + consumed), s)
  <2>3. X = [reader |-> N, record |-> <<r>>]
    BY <1>2, <2>1, <2>2, Zenon
  <2>4. r.from = d + p /\ r.end = d + p + consumed
    BY DEF Record
  <2>5. N.searched = 0 /\ N.dropped = d + (p + consumed)
    BY DEF Reader
  <2> HIDE DEF r, N
  <2>6. X.reader = N /\ X.record = <<r>> /\ X.record # <<>>
    BY <2>3
  <2> DEFINE all == rs \o <<r>>
  <2>7. /\ Len(all) = Len(rs) + 1 /\ all[Len(rs) + 1] = r
        /\ \A i \in 1 .. Len(rs) : all[i] = rs[i]
    <3>1. \A S : \A u \in Seq(S) : \A e : Len(u \o <<e>>) = Len(u) + 1
             /\ (u \o <<e>>)[Len(u) + 1] = e
             /\ \A i \in 1 .. Len(u) : (u \o <<e>>)[i] = u[i]
      OBVIOUS
    <3> QED BY <1>0, <3>1
  <2> HIDE DEF all
  <2>8. \A i \in 1 .. Len(all) : EndIn(all, i) = EndIn(rs, i)
    <3> TAKE i \in 1 .. Len(all)
    <3>1. CASE i = 1
      BY <3>1 DEF EndIn
    <3>2. CASE i # 1
      <4>1. i - 1 \in 1 .. Len(rs)
        BY <1>0, <2>7, <3>2
      <4> QED BY <2>7, <3>2, <4>1 DEF EndIn
    <3> QED BY <3>1, <3>2
  <2>9. LastEnd(all) = d + p + consumed
    <3>1. Len(all) + 1 # 1 /\ (Len(all) + 1) - 1 = Len(rs) + 1
      BY <1>0, <2>7
    <3> QED BY <2>4, <2>7, <3>1 DEF LastEnd, EndIn
  <2>10. FirstStart(l, s, from, d + p)
    <3>1. StartsAt(l, s, from, d + p)
      <4>1. p \in sd .. Len(b) - 1 /\ Candidate(b, p)
            /\ check(Slice(b, p, Len(b)), s).kind = "Start"
        BY <1>5, <2>2
      <4> QED BY <1>6, <4>1
    <3>2. \A k \in from .. (d + p) - 1 : ~StartsAt(l, s, from, k)
      BY <1>7, <2>2
    <3>3. \A n : n = d + p => FirstStart(l, s, from, n)
      <4> SUFFICES ASSUME NEW n, n = d + p PROVE FirstStart(l, s, from, n)
        OBVIOUS
      <4>1. StartsAt(l, s, from, n)
        BY <3>1
      <4>2. \A k \in from .. n - 1 : ~StartsAt(l, s, from, k)
        BY <3>2
      <4> QED BY <4>1, <4>2 DEF FirstStart
    <3> QED BY <3>3
  <2>11. \A i \in 1 .. Len(all) : FirstStart(l, s, EndIn(all, i), all[i].from)
    <3> TAKE i \in 1 .. Len(all)
    <3>1. CASE i = Len(rs) + 1
      <4>1. EndIn(rs, i) = from /\ all[i].from = d + p
        BY <2>4, <2>7, <3>1 DEF from, LastEnd
      <4> QED BY <2>8, <2>10, <4>1
    <3>2. CASE i # Len(rs) + 1
      <4>1. i \in 1 .. Len(rs)
        BY <1>0, <2>7, <3>2
      <4> QED BY <1>8, <2>7, <2>8, <4>1
    <3> QED BY <3>1, <3>2
  <2>12. \A k \in LastEnd(all) .. (N.dropped + N.searched) - 1 :
            ~StartsAt(l, s, LastEnd(all), k)
    <3>1. p \in Nat
      BY <1>0, <1>1, <2>2
    <3>2. N.dropped + N.searched = LastEnd(all) /\ LastEnd(all) \in Nat
      BY <1>0, <2>5, <2>9, <3>1
    <3>3. \A n \in Nat : n .. n - 1 = {}
      OBVIOUS
    <3>4. LastEnd(all) .. (N.dropped + N.searched) - 1 = {}
      <4>1. \A m, n : m = n /\ n \in Nat => n .. m - 1 = {}
        BY <3>3
      <4> QED BY <3>2, <4>1
    <3> QED BY <3>4, Zenon
  <2>13. SearchInv(l, s, N.searched, N.dropped, all)
    BY <2>11, <2>12 DEF SearchInv
  <2> QED BY <2>6, <2>13 DEF X, R, all
<1> QED BY <1>3, <1>9, <1>10

\* What finish needs beside: the whole log was fed, and in the end searched.
StartsInv ==
  /\ SearchInv(log, given_separator, searched, dropped, records)
  /\ finished => fed = Len(log)
  /\ Drained => dropped + searched = Len(log)

LEMMA StartsInit == Init => StartsInv
<1> SUFFICES ASSUME Init PROVE StartsInv
  OBVIOUS
<1>1. /\ searched = 0 /\ dropped = 0 /\ records = <<>> /\ finished = FALSE
  BY DEF Init
<1>2. LastEnd(records) = 0 /\ Len(records) = 0
  <2>1. Len(<<>>) + 1 = 1 /\ Len(<<>>) = 0
    OBVIOUS
  <2> QED BY <1>1, <2>1 DEF LastEnd, EndIn
<1>3. 1 .. Len(records) = {} /\ LastEnd(records) .. (dropped + searched) - 1 = {}
  BY <1>1, <1>2
<1> QED BY <1>1, <1>3 DEF StartsInv, SearchInv, Drained

LEMMA StartsRead ==
  ASSUME IInv, StartsInv, NEW at_end \in BOOLEAN, at_end <=> finished, Read(at_end)
  PROVE  StartsInv'
<1> DEFINE R == Reader(buf, searched, prefix_truncated, dropped, given_separator)
           X == read(R, at_end)
<1>1. ReadTo(X)
  BY Zenon DEF Read
<1>2. /\ SearchInv(log, given_separator, X.reader.searched, X.reader.dropped,
                   records \o X.record)
      /\ at_end /\ X.record = <<>> => X.reader.dropped + X.reader.searched = Len(log)
  <2>1. /\ LogInv(log, given_separator, fed, buf, searched, prefix_truncated, dropped, records)
        /\ SearchInv(log, given_separator, searched, dropped, records)
        /\ at_end => fed = Len(log)
    BY DEF IInv, StartsInv
  <2>2. LogInv(log, given_separator, fed, buf, searched, prefix_truncated, dropped, records)
    BY <2>1
  <2>3. SearchInv(log, given_separator, searched, dropped, records)
    BY <2>1
  <2>4. at_end => fed = Len(log)
    BY <2>1
  <2> QED BY <2>2, <2>3, <2>4, ReadFinds
<1> HIDE DEF X
<1>3. /\ searched' = X.reader.searched /\ dropped' = X.reader.dropped
      /\ records' = records \o X.record
      /\ returned' = IF X.record = <<>> THEN "None" ELSE "Record"
      /\ log' = log /\ given_separator' = given_separator /\ fed' = fed
      /\ finished' = finished
  BY <1>1 DEF ReadTo
<1>4. SearchInv(log', given_separator', searched', dropped', records')
  BY <1>2, <1>3
<1>5. finished' => fed' = Len(log')
  BY <1>3 DEF StartsInv
<1>6. finished' /\ returned' = "None" => dropped' + searched' = Len(log')
  BY <1>2, <1>3
<1> QED BY <1>4, <1>5, <1>6 DEF StartsInv, Drained

LEMMA StartsNext == IInv /\ StartsInv /\ [Next]_vars => StartsInv'
<1> SUFFICES ASSUME IInv, StartsInv, [Next]_vars PROVE StartsInv'
  OBVIOUS
<1>1. ASSUME NEW n \in Chunks, feed(n) PROVE StartsInv'
  BY <1>1 DEF feed, StartsInv, Drained
<1>2. CASE next_record
  <2>1. FALSE \in BOOLEAN /\ (FALSE <=> finished) /\ Read(FALSE)
    BY <1>2 DEF next_record
  <2> QED BY <2>1, StartsRead
<1>3. CASE finish
  BY <1>3 DEF finish, StartsInv, Drained
<1>4. CASE drain
  <2>1. TRUE \in BOOLEAN /\ (TRUE <=> finished) /\ Read(TRUE)
    BY <1>4 DEF drain
  <2> QED BY <2>1, StartsRead
<1>5. CASE UNCHANGED vars
  BY <1>5 DEF StartsInv, Drained, vars
<1> QED BY <1>1, <1>2, <1>3, <1>4, <1>5 DEF Next

LEMMA StartsInLog ==
  ASSUME NEW l \in Seq(Byte), NEW s, NEW from, NEW q \in Nat, StartsAt(l, s, from, q)
  PROVE  q < Len(l)
<1> SUFFICES ASSUME q >= Len(l) PROVE FALSE
  OBVIOUS
<1>1. Slice(l, q, Len(l)) = <<>>
  BY DEF Slice
<1>2. check(<<>>, s) = Pending
  <2>1. Len(<<>>) = 0 /\ Lesser(0, 5) = 0 /\ 0 < 5
    BY DEF Lesser
  <2>2. MatchesPrefix(<<>>, 0, 0)
    BY DEF MatchesPrefix
  <2> QED BY <2>1, <2>2 DEF check, PREFIX_LEN
<1> QED BY <1>1, <1>2 DEF StartsAt, Pending

\* A search of everything after from finds the first start there, if any.
LEMMA SearchFromEnd ==
  ASSUME NEW l \in Seq(Byte), NEW s \in Byte \cup {None}, NEW from \in Nat, from <= Len(l)
  PROVE  LET rest == Slice(l, from, Len(l))
             start == find_start(rest, 0, Len(rest), s, TRUE)
         IN  /\ start.kind = "Found" =>
                  /\ from + start.at \in from .. Len(l) - 1
                  /\ FirstStart(l, s, from, from + start.at)
             /\ start.kind # "Found" =>
                  \A q \in from .. Len(l) - 1 : ~StartsAt(l, s, from, q)
<1> DEFINE rest == Slice(l, from, Len(l))
           start == find_start(rest, 0, Len(rest), s, TRUE)
           p == PrefixLen(rest, start)
<1>1. /\ Len(l) \in Nat /\ Len(l) <= Len(l)
      /\ rest \in Seq(Byte) /\ Len(rest) = Len(l) - from /\ Len(rest) \in Nat
  <2>1. Len(l) \in Nat /\ Len(l) <= Len(l)
    OBVIOUS
  <2>2. rest \in Seq(Byte) /\ Len(rest) = Len(l) - from
    BY <2>1, ByteSlices, Zenon
  <2> HIDE DEF rest
  <2> QED BY <2>1, <2>2
<1>2. \A i \in 0 .. Len(rest) - 1 : ShowsAt(l, s, from, from, Len(l), rest, i)
  <2> TAKE i \in 0 .. Len(rest) - 1
  <2>1. i \in Nat /\ from + i < Len(l) /\ (from > from => i > 0) /\ from <= from
    <3> HIDE DEF rest
    <3> QED BY <1>1
  <2> QED BY <1>1, <2>1, BufferShows
<1>3. /\ \A i \in 0 .. p - 1 :
           Candidate(rest, i) => Undecided(check(Slice(rest, i, Len(rest)), s), TRUE)
      /\ start.kind = "Found" =>
           /\ start.at \in 0 .. Len(rest) - 1 /\ Candidate(rest, start.at)
           /\ check(Slice(rest, start.at, Len(rest)), s).kind = "Start"
      /\ start.kind # "Found" => p = Len(rest)
      /\ start.kind = "Found" => p = start.at
  <2>1. start.kind = "Found" => p = start.at
    BY DEF PrefixLen
  <2>2. 0 \in Nat /\ TRUE \in BOOLEAN
    OBVIOUS
  <2> HIDE DEF rest
  <2> QED BY <1>1, <2>1, <2>2, FindStartDecides, Zenon
<1> HIDE DEF rest, start, p
<1>4. ASSUME p \in 0 .. Len(rest)
      PROVE  \A q \in from .. (from + p) - 1 : ~StartsAt(l, s, from, q)
  <2> SUFFICES ASSUME NEW q \in from .. (from + p) - 1, StartsAt(l, s, from, q)
               PROVE  FALSE
    OBVIOUS
  <2> DEFINE i == q - from
             x == check(Slice(rest, i, Len(rest)), s)
  <2>1. i \in 0 .. p - 1 /\ i \in 0 .. Len(rest) - 1 /\ from + i = q
    BY <1>1, <1>4
  <2> HIDE DEF i
  <2>2. Candidate(rest, i) /\ x.kind = "Start"
    BY <1>2, <2>1 DEF ShowsAt
  <2> QED BY <1>3, <2>1, <2>2 DEF Undecided
<1>5. CASE start.kind = "Found"
  <2>1. p \in 0 .. Len(rest) - 1 /\ p = start.at
    BY <1>3, <1>5
  <2>2. StartsAt(l, s, from, from + p)
    BY <1>2, <1>3, <1>5, <2>1 DEF ShowsAt
  <2>3. \A k \in from .. (from + p) - 1 : ~StartsAt(l, s, from, k)
    BY <1>1, <1>4, <2>1
  <2>4. FirstStart(l, s, from, from + p)
    BY <2>2, <2>3 DEF FirstStart
  <2>5. from + p \in from .. Len(l) - 1
    BY <1>1, <2>1
  <2> QED BY <1>5, <2>1, <2>4, <2>5 DEF start, rest
<1>6. CASE start.kind # "Found"
  <2>1. p = Len(rest) /\ from + p = Len(l) /\ p \in 0 .. Len(rest)
    BY <1>1, <1>3, <1>6
  <2>2. \A k \in from .. (from + p) - 1 : ~StartsAt(l, s, from, k)
    BY <1>4, <2>1
  <2>3. \A k \in from .. Len(l) - 1 : ~StartsAt(l, s, from, k)
    BY <2>1, <2>2
  <2> QED BY <1>6, <2>3 DEF start, rest
<1> QED BY <1>5, <1>6

\* However the log is cut into chunks and whatever of it is dropped, finish
\* leaves no message start between two records or behind the last: what read
\* skipped is what a search of the whole log skips.
THEOREM NoStartIsPassedOver == Spec => []NoStartPassedOver
<1>1. IInv /\ StartsInv => NoStartPassedOver
  <2> SUFFICES ASSUME IInv, StartsInv, Drained, NEW i \in 0 .. Len(records)
               PROVE  StartAfter(i) = IF i < Len(records) THEN records[i + 1].from ELSE None
    BY DEF NoStartPassedOver
  <2> DEFINE from == EndIn(records, i + 1)
             rest == Slice(log, from, Len(log))
             start == find_start(rest, 0, Len(rest), given_separator, TRUE)
  <2>1. /\ log \in Seq(Byte) /\ given_separator \in Byte \cup {None} /\ Len(log) \in Nat
        /\ records \in Seq(LogRecord) /\ Len(records) \in Nat /\ i \in Nat
        /\ dropped + searched = Len(log) /\ LastEnd(records) <= dropped
        /\ LastEnd(records) \in Nat /\ dropped \in Nat /\ searched \in Nat
    <3>1. /\ log \in Seq(Byte) /\ given_separator \in Byte \cup {None}
          /\ records \in Seq(LogRecord) /\ LastEnd(records) <= dropped
          /\ LastEnd(records) \in Nat /\ dropped \in 0 .. fed /\ searched \in 0 .. Len(buf)
          /\ dropped + searched = Len(log)
      BY DEF IInv, LogInv, StartsInv
    <3> QED BY <3>1
  <2>2. /\ \A j \in 1 .. Len(records) :
             /\ RecordTiles(log, EndIn(records, j), records[j])
             /\ FirstStart(log, given_separator, EndIn(records, j), records[j].from)
        /\ \A q \in LastEnd(records) .. (dropped + searched) - 1 :
             ~StartsAt(log, given_separator, LastEnd(records), q)
    BY DEF IInv, LogInv, StartsInv, SearchInv
  <2>3. from = (IF i = 0 THEN 0 ELSE records[i].end) /\ from \in Nat
    <3>1. (i + 1) - 1 = i /\ (i + 1 = 1 <=> i = 0)
      BY <2>1
    <3>2. i # 0 => records[i] \in LogRecord /\ records[i].end \in Nat
      <4> SUFFICES ASSUME i # 0 PROVE records[i] \in LogRecord /\ records[i].end \in Nat
        OBVIOUS
      <4>1. i \in 1 .. Len(records)
        BY <2>1
      <4>2. records[i] \in LogRecord
        BY <2>1, <4>1, ElementOfSeq
      <4> QED BY <4>2 DEF LogRecord
    <3> QED BY <3>1, <3>2 DEF EndIn
  <2>4. StartAfter(i) = IF start.kind = "Found" THEN from + start.at ELSE None
    BY <2>3, Zenon DEF StartAfter
  <2> HIDE DEF from
  <2>5. CASE i < Len(records)
    <3> DEFINE r == records[i + 1]
    <3>1. i + 1 \in 1 .. Len(records)
      BY <2>1, <2>5
    <3>2. r \in LogRecord /\ r.from \in Nat /\ r.end \in Nat
      <4>1. r \in LogRecord
        BY <2>1, <3>1, ElementOfSeq
      <4> QED BY <4>1 DEF LogRecord
    <3>3. from <= r.from /\ r.from < r.to
      BY <2>2, <3>1 DEF RecordTiles, from
    <3>4. FirstStart(log, given_separator, from, r.from)
      BY <2>2, <3>1 DEF from
    <3>5. r.from < Len(log) /\ from <= Len(log)
      <4>1. StartsAt(log, given_separator, from, r.from)
        BY <3>4 DEF FirstStart
      <4> HIDE DEF r
      <4>2. r.from < Len(log)
        BY <2>1, <3>2, <4>1, StartsInLog
      <4> QED BY <2>1, <2>3, <3>2, <3>3, <4>2
    <3>6. /\ start.kind = "Found" =>
               /\ from + start.at \in from .. Len(log) - 1
               /\ FirstStart(log, given_separator, from, from + start.at)
          /\ start.kind # "Found" =>
               \A q \in from .. Len(log) - 1 : ~StartsAt(log, given_separator, from, q)
      BY <2>1, <2>3, <3>5, SearchFromEnd, Zenon
    <3> DEFINE at == from + start.at
    <3> HIDE DEF r, start, at
    <3>7. /\ StartsAt(log, given_separator, from, r.from) /\ r.from \in from .. Len(log) - 1
          /\ \A k \in from .. r.from - 1 : ~StartsAt(log, given_separator, from, k)
      BY <2>1, <2>3, <3>2, <3>3, <3>4, <3>5 DEF FirstStart
    <3>8. start.kind = "Found"
      BY <3>6, <3>7
    <3>9. /\ at \in from .. Len(log) - 1 /\ StartsAt(log, given_separator, from, at)
          /\ \A k \in from .. at - 1 : ~StartsAt(log, given_separator, from, k)
      BY <3>6, <3>8 DEF FirstStart, at
    <3>10. at = r.from
      <4>1. at \in Int /\ r.from \in Int /\ from \in Nat
        BY <2>1, <2>3, <3>2, <3>9
      <4>2. ~(at < r.from)
        BY <3>7, <3>9, <4>1
      <4>3. ~(r.from < at)
        BY <3>7, <3>9, <4>1
      <4> QED BY <4>1, <4>2, <4>3
    <3> QED BY <2>4, <2>5, <3>8, <3>10 DEF at, r
  <2>6. CASE ~(i < Len(records))
    <3>1. from = LastEnd(records)
      <4>1. i = Len(records)
        BY <2>1, <2>6
      <4> QED BY <4>1 DEF from, LastEnd
    <3>2. /\ from <= Len(log)
          /\ \A q \in from .. Len(log) - 1 : ~StartsAt(log, given_separator, from, q)
      <4>1. \A q \in from .. (dropped + searched) - 1 :
               ~StartsAt(log, given_separator, from, q)
        BY <2>2, <3>1
      <4>2. \A q \in from .. Len(log) - 1 : ~StartsAt(log, given_separator, from, q)
        BY <2>1, <4>1
      <4> QED BY <2>1, <3>1, <4>2
    <3>3. start.kind = "Found" =>
            /\ from + start.at \in from .. Len(log) - 1
            /\ FirstStart(log, given_separator, from, from + start.at)
      BY <2>1, <2>3, <3>2, SearchFromEnd, Zenon
    <3> HIDE DEF start
    <3>4. start.kind # "Found"
      BY <3>2, <3>3 DEF FirstStart
    <3> QED BY <2>4, <2>6, <3>4
  <2> QED BY <2>5, <2>6
<1>2. Spec => []StartsInv
  <2>1. Spec => []IInv
    BY Invariance
  <2> QED BY <2>1, StartsInit, StartsNext, PTL DEF Spec
<1> QED BY <1>1, <1>2, Invariance, PTL

-----------------------------------------------------------------------------
(* A message ends where it does when the whole log is read: what is decided *)
(* of the end before the input ends stays decided.                          *)

\* Of what may be waited for, x says the same as y.
Same(x, y) == x = Waiting \/ y = x

\* c and d have their first m bytes in common, all that c holds or all but a CR
\* that ends it, where d ends.
Shared(c, d, m) ==
  /\ c \in Seq(Byte) /\ d \in Seq(Byte)
  /\ m \in 1 .. Len(c) /\ m <= Len(d)
  /\ \A i \in 0 .. m - 1 : At(c, i) = At(d, i)
  /\ m < Len(c) => m = Len(c) - 1 /\ m = Len(d) /\ At(c, m) = CR

\* b is a and the rest of the log; c and d are what a message can hold of each.
\* Either nothing can join c, or it is all of a.
Cut(a, b, c, d, m) ==
  /\ a \in Seq(Byte) /\ b \in Seq(Byte) /\ Begins(a, b)
  /\ Shared(c, d, m) /\ Len(c) <= Len(a)
  /\ CappedFinal(b, TRUE)
  /\ \/ CappedFinal(a, FALSE) /\ d = c /\ m = Len(c)
     \/ ~CappedFinal(a, FALSE) /\ c = a /\ (m < Len(c) => b = a)

\* What a message can hold of the bytes b.
LEMMA CappedIs ==
  ASSUME NEW b \in Seq(Byte), Len(b) >= 1, NEW at_end \in BOOLEAN
  PROVE  LET n == IF at_end /\ At(b, Len(b) - 1) = CR THEN Len(b) - 1 ELSE Len(b)
             len == Lesser(n, MAX_MESSAGE_LEN)
         IN  /\ Capped(b, at_end) = Slice(b, 0, len)
             /\ Capped(b, at_end) \in Seq(Byte)
             /\ len \in 0 .. Len(b)
             /\ Len(Capped(b, at_end)) = len
             /\ \A i \in 0 .. len - 1 : At(Capped(b, at_end), i) = At(b, i)
<1> DEFINE n == IF at_end /\ At(b, Len(b) - 1) = CR THEN Len(b) - 1 ELSE Len(b)
           len == Lesser(n, MAX_MESSAGE_LEN)
           c == Capped(b, at_end)
<1>1. c = Slice(b, 0, len)
  <2>1. (at_end /\ Len(b) > 0 /\ At(b, Len(b) - 1) = CR) <=> (at_end /\ At(b, Len(b) - 1) = CR)
    OBVIOUS
  <2> QED BY <2>1 DEF Capped
<1>2. len \in Nat /\ len <= Len(b) /\ 0 \in Nat /\ 0 <= len
  <2>1. n \in Nat /\ n <= Len(b)
    OBVIOUS
  <2> HIDE DEF n
  <2> QED BY <2>1, Limits DEF Lesser
<1> HIDE DEF len
<1>3. /\ Slice(b, 0, len) \in Seq(Byte) /\ Len(Slice(b, 0, len)) = len - 0
      /\ \A k \in 1 .. len - 0 : Slice(b, 0, len)[k] = b[0 + k]
  BY <1>2, SliceProperties, Zenon
<1>4. /\ c \in Seq(Byte) /\ Len(c) = len /\ \A k \in 1 .. len : c[k] = b[k]
  BY <1>1, <1>2, <1>3
<1> HIDE DEF c
<1>5. \A i \in 0 .. len - 1 : At(c, i) = At(b, i)
  BY <1>2, <1>4 DEF At
<1>6. len \in 0 .. Len(b)
  BY <1>2
<1> QED BY <1>1, <1>4, <1>5, <1>6 DEF len, n, c

\* Only of a log that ends in a CR that fills the message does c hold more.
LEMMA CutExists ==
  ASSUME NEW a \in Seq(Byte), NEW b \in Seq(Byte), Begins(a, b), Len(a) >= 1,
         At(a, 0) = 56, ~(At(b, Len(b) - 1) = CR /\ Len(b) = MAX_MESSAGE_LEN)
  PROVE  \E m \in Nat : Cut(a, b, Capped(a, FALSE), Capped(b, TRUE), m)
<1> DEFINE c == Capped(a, FALSE)
           d == Capped(b, TRUE)
           cut == At(b, Len(b) - 1) = CR
           n == IF cut THEN Len(b) - 1 ELSE Len(b)
<1>1. /\ Len(a) \in Nat /\ Len(b) \in Nat /\ Len(a) <= Len(b) /\ Len(b) >= 1
      /\ \A i \in 0 .. Len(a) - 1 : At(a, i) = At(b, i)
  BY DEF Begins, At
<1>2. /\ c = Slice(a, 0, Lesser(Len(a), MAX_MESSAGE_LEN))
      /\ c \in Seq(Byte) /\ Len(c) = Lesser(Len(a), MAX_MESSAGE_LEN)
      /\ \A i \in 0 .. Len(c) - 1 : At(c, i) = At(a, i)
  BY <1>1, CappedIs, Zenon
<1>3. /\ d = Slice(b, 0, Lesser(n, MAX_MESSAGE_LEN))
      /\ d \in Seq(Byte) /\ Len(d) = Lesser(n, MAX_MESSAGE_LEN)
      /\ \A i \in 0 .. Len(d) - 1 : At(d, i) = At(b, i)
  <2>1. (TRUE /\ At(b, Len(b) - 1) = CR) <=> cut
    OBVIOUS
  <2> QED BY <1>1, CappedIs, Zenon
<1>4. CappedFinal(b, TRUE) /\ (CappedFinal(a, FALSE) <=> Len(c) = MAX_MESSAGE_LEN)
  BY DEF CappedFinal
<1>5. CASE Len(a) >= MAX_MESSAGE_LEN
  <2>1. Len(c) = MAX_MESSAGE_LEN /\ Len(d) = MAX_MESSAGE_LEN
    <3>1. n >= MAX_MESSAGE_LEN
      BY <1>1, <1>5, Limits
    <3> HIDE DEF n, c, d
    <3> QED BY <1>1, <1>2, <1>3, <1>5, <3>1, Limits DEF Lesser
  <2> HIDE DEF c, d
  <2>2. d = c
    <3>1. \A i \in 1 .. Len(c) : c[i] = d[i]
      <4> SUFFICES ASSUME NEW i \in 1 .. Len(c) PROVE c[i] = d[i]
        OBVIOUS
      <4>1. /\ i - 1 \in 0 .. Len(c) - 1 /\ i - 1 \in 0 .. Len(d) - 1
            /\ i - 1 \in 0 .. Len(a) - 1 /\ (i - 1) + 1 = i
        BY <1>1, <1>5, <2>1, Limits
      <4>2. At(c, i - 1) = At(d, i - 1)
        BY <1>1, <1>2, <1>3, <4>1
      <4> QED BY <4>1, <4>2 DEF At
    <3> QED BY <1>2, <1>3, <2>1, <3>1
  <2>3. Shared(c, d, Len(c))
    <3>1. Len(c) \in Nat /\ Len(c) >= 1
      BY <2>1, Limits
    <3> QED BY <1>2, <2>2, <3>1 DEF Shared
  <2>4. Len(c) <= Len(a) /\ Len(c) \in Nat
    BY <1>5, <2>1, Limits
  <2> QED BY <1>4, <2>1, <2>2, <2>3, <2>4, Zenon DEF Cut, c, d
<1>6. CASE Len(a) < MAX_MESSAGE_LEN
  <2> HIDE DEF c, d
  <2>1. Len(c) = Len(a) /\ c = a
    <3>1. Len(c) = Len(a)
      BY <1>1, <1>2, <1>6, Limits DEF Lesser
    <3>2. \A i \in 1 .. Len(c) : c[i] = a[i]
      <4> SUFFICES ASSUME NEW i \in 1 .. Len(c) PROVE c[i] = a[i]
        OBVIOUS
      <4>1. i - 1 \in 0 .. Len(c) - 1 /\ (i - 1) + 1 = i
        BY <1>1, <3>1
      <4>2. At(c, i - 1) = At(a, i - 1)
        BY <1>2, <4>1
      <4> QED BY <4>1, <4>2 DEF At
    <3> QED BY <1>2, <3>1, <3>2
  <2>2. ~CappedFinal(a, FALSE)
    <3>1. Len(c) # MAX_MESSAGE_LEN
      BY <1>1, <1>6, <2>1, Limits
    <3> QED BY <1>4, <3>1, Zenon
  <2> DEFINE m == Lesser(Len(a), Len(d))
  <2>3. Len(d) \in Nat /\ Len(d) <= Len(b)
    BY <1>1, <1>3, Limits DEF Lesser
  <2>4. m \in Nat /\ m <= Len(a) /\ m <= Len(d) /\ (m < Len(a) => m = Len(d))
    BY <1>1, <2>3 DEF Lesser
  <2>5. m < Len(a) => m = Len(a) - 1 /\ cut /\ Len(a) = Len(b)
    <3> SUFFICES ASSUME m < Len(a)
                 PROVE  m = Len(a) - 1 /\ cut /\ Len(a) = Len(b)
      OBVIOUS
    <3>1. Len(d) < Len(a) /\ m = Len(d)
      BY <2>3, <2>4, <1>1
    <3>2. Len(d) = n
      BY <1>1, <1>3, <1>6, <3>1, Limits DEF Lesser
    <3> HIDE DEF m
    <3>3. CASE cut
      BY <1>1, <3>1, <3>2, <3>3
    <3>4. CASE ~cut
      BY <1>1, <3>1, <3>2, <3>4
    <3> QED BY <3>3, <3>4
  <2> HIDE DEF m
  <2>6. m < Len(a) => b = a /\ At(a, m) = CR
    <3> SUFFICES ASSUME m < Len(a) PROVE b = a /\ At(a, m) = CR
      OBVIOUS
    <3>1. Len(a) = Len(b) /\ cut /\ m = Len(a) - 1
      BY <2>5
    <3>2. b = a
      BY <3>1 DEF Begins
    <3> QED BY <3>1, <3>2
  <2>7. m >= 1
    <3>1. m = 0 => FALSE
      <4> SUFFICES ASSUME m = 0 PROVE FALSE
        OBVIOUS
      <4>1. At(a, m) = CR
        BY <2>4, <2>6
      <4> QED BY <4>1 DEF CR
    <3> QED BY <2>4, <3>1
  <2>8. \A i \in 0 .. m - 1 : At(c, i) = At(d, i)
    <3> SUFFICES ASSUME NEW i \in 0 .. m - 1 PROVE At(c, i) = At(d, i)
      OBVIOUS
    <3>1. i \in 0 .. Len(a) - 1 /\ i \in 0 .. Len(d) - 1
      BY <1>1, <2>3, <2>4
    <3> QED BY <1>1, <1>3, <2>1, <3>1
  <2>9. Shared(c, d, m)
    <3>1. m \in 1 .. Len(c) /\ m <= Len(d)
      BY <1>1, <2>1, <2>4, <2>7
    <3>2. m < Len(c) => m = Len(c) - 1 /\ m = Len(d) /\ At(c, m) = CR
      BY <2>1, <2>4, <2>5, <2>6
    <3> QED BY <1>2, <1>3, <2>8, <3>1, <3>2 DEF Shared
  <2>10. Cut(a, b, c, d, m)
    <3>1. m < Len(c) => b = a
      BY <2>1, <2>6
    <3>2. Len(c) <= Len(a)
      BY <1>1, <2>1
    <3> QED BY <1>4, <2>1, <2>2, <2>9, <3>1, <3>2 DEF Cut
  <2> QED BY <2>4, <2>10, Zenon DEF c, d
<1>7. Len(a) >= MAX_MESSAGE_LEN \/ Len(a) < MAX_MESSAGE_LEN
  BY <1>1, Limits
<1> QED BY <1>5, <1>6, <1>7, Zenon

\* The line break after a message, once it is decided, stays.
LEMMA AfterMessageSame ==
  ASSUME NEW a \in Seq(Byte), NEW b \in Seq(Byte), Begins(a, b), NEW len \in 0 .. Len(a)
  PROVE  Same(after_message(a, len, FALSE), after_message(b, len, TRUE))
<1> DEFINE r == Slice(a, len, Len(a))
           q == Slice(b, len, Len(b))
           After(s) == IF s[1] = LF THEN End(len, len + 1, FALSE)
                       ELSE IF s[1] = CR /\ s[2] = LF THEN End(len, len + 2, FALSE)
                       ELSE End(len, len, FALSE)
<1>1. /\ Len(a) \in Nat /\ Len(b) \in Nat /\ Len(a) <= Len(b) /\ len \in Nat
      /\ len <= Len(a) /\ len <= Len(b)
  BY DEF Begins
<1>2. /\ r \in Seq(Byte) /\ Len(r) = Len(a) - len
      /\ \A k \in 1 .. Len(a) - len : r[k] = a[len + k]
  <2>1. Len(a) <= Len(a)
    BY <1>1
  <2> QED BY <1>1, <2>1, SliceProperties, Zenon
<1>3. /\ q \in Seq(Byte) /\ Len(q) = Len(b) - len
      /\ \A k \in 1 .. Len(b) - len : q[k] = b[len + k]
  <2>1. Len(b) <= Len(b)
    BY <1>1
  <2> QED BY <1>1, <2>1, SliceProperties, Zenon
<1>4. after_message(a, len, FALSE) = IF r \in {<<>>, <<CR>>} THEN Waiting ELSE After(r)
  BY Zenon DEF after_message
<1>5. after_message(b, len, TRUE)
        = IF q \in {<<>>, <<CR>>} THEN End(len, len, FALSE) ELSE After(q)
  BY Zenon DEF after_message
<1> HIDE DEF r, q
<1>6. CASE r \in {<<>>, <<CR>>}
  BY <1>4, <1>6 DEF Same
<1>7. CASE r \notin {<<>>, <<CR>>}
  <2>1. Len(r) >= 1 /\ (r[1] = CR => Len(r) >= 2)
    <3>1. Len(r) # 0
      BY <1>2, <1>7
    <3>2. Len(r) = 1 /\ r[1] = CR => r = <<CR>>
      BY <1>2
    <3> QED BY <1>1, <1>2, <1>7, <3>1, <3>2
  <2>2. Len(q) >= Len(r) /\ \A k \in 1 .. Len(r) : q[k] = r[k]
    <3>1. \A k \in 1 .. Len(r) : q[k] = r[k]
      <4> SUFFICES ASSUME NEW k \in 1 .. Len(r) PROVE q[k] = r[k]
        OBVIOUS
      <4>1. k \in 1 .. Len(a) - len /\ k \in 1 .. Len(b) - len /\ len + k \in 1 .. Len(a)
        BY <1>1, <1>2
      <4> QED BY <1>2, <1>3, <4>1 DEF Begins
    <3> QED BY <1>1, <1>2, <1>3, <3>1
  <2>3. q[1] = r[1] /\ (r[1] = CR => q[2] = r[2] /\ Len(q) >= 2)
    BY <1>2, <1>3, <2>1, <2>2
  <2>4. q \notin {<<>>, <<CR>>}
    <3>1. Len(q) # 0 /\ (q[1] = CR => Len(q) # 1)
      BY <1>2, <1>3, <2>1, <2>2, <2>3
    <3>2. Len(<<>>) = 0 /\ Len(<<CR>>) = 1 /\ <<CR>>[1] = CR
      OBVIOUS
    <3> QED BY <3>1, <3>2
  <2>5. After(q) = After(r)
    BY <2>3
  <2> HIDE DEF After
  <2> QED BY <1>4, <1>5, <1>7, <2>4, <2>5 DEF Same
<1> QED BY <1>6, <1>7

\* What lies within the shared bytes is the same in both.
LEMMA SharedSlice ==
  ASSUME NEW c, NEW d, NEW m, Shared(c, d, m), NEW i \in Nat, NEW j \in Nat, i <= j, j <= m
  PROVE  Slice(d, i, j) = Slice(c, i, j)
<1>1. /\ c \in Seq(Byte) /\ d \in Seq(Byte) /\ Len(c) \in Nat /\ Len(d) \in Nat
      /\ m \in 1 .. Len(c) /\ m <= Len(d) /\ \A k \in 0 .. m - 1 : At(c, k) = At(d, k)
  BY DEF Shared
<1>2. j <= Len(c) /\ j <= Len(d)
  BY <1>1
<1>3. /\ Slice(c, i, j) \in Seq(Byte) /\ Len(Slice(c, i, j)) = j - i
      /\ \A k \in 1 .. j - i : Slice(c, i, j)[k] = c[i + k]
  BY <1>1, <1>2, ByteSlices, Zenon
<1>4. /\ Slice(d, i, j) \in Seq(Byte) /\ Len(Slice(d, i, j)) = j - i
      /\ \A k \in 1 .. j - i : Slice(d, i, j)[k] = d[i + k]
  BY <1>1, <1>2, ByteSlices, Zenon
<1>5. \A k \in 1 .. j - i : d[i + k] = c[i + k]
  <2> SUFFICES ASSUME NEW k \in 1 .. j - i PROVE d[i + k] = c[i + k]
    OBVIOUS
  <2>1. (i + k) - 1 \in 0 .. m - 1 /\ ((i + k) - 1) + 1 = i + k
    BY <1>1
  <2>2. At(c, (i + k) - 1) = At(d, (i + k) - 1)
    BY <1>1, <2>1
  <2> QED BY <2>1, <2>2 DEF At
<1>6. j - i \in Nat
  OBVIOUS
<1> QED BY <1>3, <1>4, <1>5, <1>6

LEMMA SharedMatches ==
  ASSUME NEW c, NEW d, NEW m, Shared(c, d, m), NEW i \in Nat, NEW pat \in Seq(Byte),
         i + Len(pat) <= m
  PROVE  Matches(d, i, pat) <=> Matches(c, i, pat)
<1>1. /\ Len(c) \in Nat /\ Len(d) \in Nat /\ Len(pat) \in Nat
      /\ m \in 1 .. Len(c) /\ m <= Len(d) /\ \A k \in 0 .. m - 1 : At(c, k) = At(d, k)
  BY DEF Shared
<1>2. \A j \in 1 .. Len(pat) : d[i + j] = c[i + j]
  <2> SUFFICES ASSUME NEW j \in 1 .. Len(pat) PROVE d[i + j] = c[i + j]
    OBVIOUS
  <2>1. (i + j) - 1 \in 0 .. m - 1 /\ ((i + j) - 1) + 1 = i + j
    BY <1>1
  <2>2. At(c, (i + j) - 1) = At(d, (i + j) - 1)
    BY <1>1, <2>1
  <2> QED BY <2>1, <2>2 DEF At
<1>3. i + Len(pat) <= Len(c) /\ i + Len(pat) <= Len(d)
  BY <1>1
<1> QED BY <1>2, <1>3 DEF Matches

\* A run that ends in what c and d share ends there in both, and one that does
\* not in neither.
LEMMA SharedRun ==
  ASSUME NEW c, NEW d, NEW m, Shared(c, d, m), NEW from \in Nat, from <= m, NEW S
  PROVE  /\ RunEnd(c, from, S) < m => RunEnd(d, from, S) = RunEnd(c, from, S)
         /\ RunEnd(c, from, S) >= m => RunEnd(d, from, S) >= m
<1> DEFINE v == RunEnd(c, from, S)
           w == RunEnd(d, from, S)
<1>1. /\ c \in Seq(Byte) /\ d \in Seq(Byte) /\ Len(c) \in Nat /\ Len(d) \in Nat /\ m \in Nat
      /\ m <= Len(c) /\ m <= Len(d) /\ \A k \in 0 .. m - 1 : At(c, k) = At(d, k)
  BY DEF Shared
<1>2. /\ v \in from .. Len(c) /\ (v < Len(c) => At(c, v) \notin S)
      /\ \A i \in from .. v - 1 : At(c, i) \in S
  <2>1. from <= Len(c)
    BY <1>1
  <2> QED BY <1>1, <2>1, RunEndProperties
<1>3. /\ w \in from .. Len(d) /\ (w < Len(d) => At(d, w) \notin S)
      /\ \A i \in from .. w - 1 : At(d, i) \in S
  <2>1. from <= Len(d)
    BY <1>1
  <2> QED BY <1>1, <2>1, RunEndProperties
<1> HIDE DEF v, w
<1>4. w < m => ~(w < v)
  <2> SUFFICES ASSUME w < m, w < v PROVE FALSE
    OBVIOUS
  <2>1. w \in from .. v - 1 /\ w \in 0 .. m - 1 /\ w < Len(d)
    BY <1>1, <1>2, <1>3
  <2> QED BY <1>1, <1>2, <1>3, <2>1
<1>5. v < m => ~(v < w)
  <2> SUFFICES ASSUME v < m, v < w PROVE FALSE
    OBVIOUS
  <2>1. v \in from .. w - 1 /\ v \in 0 .. m - 1 /\ v < Len(c)
    BY <1>1, <1>2, <1>3
  <2> QED BY <1>1, <1>2, <1>3, <2>1
<1> QED BY <1>1, <1>2, <1>3, <1>4, <1>5 DEF v, w

\* What a Cut says, taken apart.
LEMMA CutFacts ==
  ASSUME NEW a, NEW b, NEW c, NEW d, NEW m, Cut(a, b, c, d, m)
  PROVE  /\ a \in Seq(Byte) /\ b \in Seq(Byte) /\ c \in Seq(Byte) /\ d \in Seq(Byte)
         /\ Len(a) \in Nat /\ Len(c) \in Nat /\ Len(d) \in Nat /\ m \in Nat /\ Begins(a, b)
         /\ m <= Len(c) /\ m <= Len(d) /\ \A k \in 0 .. m - 1 : At(c, k) = At(d, k)
         /\ m < Len(c) => m = Len(c) - 1 /\ At(c, m) = CR
         /\ Len(c) <= Len(a) /\ CappedFinal(b, TRUE)
         /\ CappedFinal(a, FALSE) => d = c /\ m = Len(c)
         /\ ~CappedFinal(a, FALSE) => c = a
<1>1. /\ a \in Seq(Byte) /\ b \in Seq(Byte) /\ Begins(a, b) /\ Shared(c, d, m)
      /\ Len(c) <= Len(a) /\ CappedFinal(b, TRUE)
      /\ \/ CappedFinal(a, FALSE) /\ d = c /\ m = Len(c)
         \/ ~CappedFinal(a, FALSE) /\ c = a /\ (m < Len(c) => b = a)
  BY Zenon DEF Cut
<1>2. /\ CappedFinal(a, FALSE) => d = c /\ m = Len(c)
      /\ ~CappedFinal(a, FALSE) => c = a
  BY <1>1, Zenon
<1>3. /\ c \in Seq(Byte) /\ d \in Seq(Byte) /\ Len(a) \in Nat /\ Len(c) \in Nat
      /\ Len(d) \in Nat /\ m \in Nat
      /\ m <= Len(c) /\ m <= Len(d) /\ \A k \in 0 .. m - 1 : At(c, k) = At(d, k)
      /\ m < Len(c) => m = Len(c) - 1 /\ At(c, m) = CR
  BY <1>1 DEF Shared
<1> QED BY <1>1, <1>2, <1>3, Zenon

\* The end that CheckSum gives, with and without the break behind it.
LEMMA ChecksumEndSame ==
  ASSUME NEW a, NEW b, NEW c, NEW d, NEW m, Cut(a, b, c, d, m),
         NEW value_start \in Nat \ {0}, NEW separator \in Byte
  PROVE  Same(ChecksumEnd(a, c, value_start, separator, FALSE),
              ChecksumEnd(b, d, value_start, separator, TRUE))
<1> DEFINE E(s) == {i \in value_start .. Len(s) - 1 : At(s, i) \in {separator, LF}}
           x == ChecksumEnd(a, c, value_start, separator, FALSE)
           y == ChecksumEnd(b, d, value_start, separator, TRUE)
<1>1. x = IF E(c) = {} THEN IF CappedFinal(a, FALSE) THEN End(Len(c), Len(c), FALSE) ELSE Waiting
          ELSE IF At(c, Least(E(c))) = separator
            THEN after_message(a, Least(E(c)) + 1, FALSE)
          ELSE at_line_break(c, Least(E(c)), FALSE)
  BY Zenon DEF ChecksumEnd
<1>2. y = IF E(d) = {} THEN IF CappedFinal(b, TRUE) THEN End(Len(d), Len(d), FALSE) ELSE Waiting
          ELSE IF At(d, Least(E(d))) = separator
            THEN after_message(b, Least(E(d)) + 1, TRUE)
          ELSE at_line_break(d, Least(E(d)), FALSE)
  BY Zenon DEF ChecksumEnd
<1>3. /\ a \in Seq(Byte) /\ b \in Seq(Byte) /\ c \in Seq(Byte) /\ d \in Seq(Byte)
      /\ Len(a) \in Nat /\ Len(c) \in Nat /\ Len(d) \in Nat /\ m \in Nat /\ Begins(a, b)
      /\ m <= Len(c) /\ m <= Len(d) /\ \A k \in 0 .. m - 1 : At(c, k) = At(d, k)
      /\ m < Len(c) => m = Len(c) - 1 /\ At(c, m) = CR
      /\ Len(c) <= Len(a) /\ CappedFinal(b, TRUE)
      /\ CappedFinal(a, FALSE) => d = c /\ m = Len(c)
      /\ ~CappedFinal(a, FALSE) => c = a
  BY CutFacts, Zenon
<1> HIDE DEF x, y
<1>4. CASE E(c) = {}
  <2>1. CASE CappedFinal(a, FALSE)
    <3>1. d = c
      BY <1>3, <2>1
    <3>2. x = y
      BY <1>1, <1>2, <1>3, <1>4, <2>1, <3>1, Zenon
    <3> QED BY <3>2 DEF Same, x, y
  <2>2. CASE ~CappedFinal(a, FALSE)
    BY <1>1, <1>4, <2>2 DEF Same, x
  <2> QED BY <2>1, <2>2
<1>5. CASE E(c) # {}
  <2> DEFINE l == Least(E(c))
  <2>1. /\ l \in value_start .. Len(c) - 1 /\ At(c, l) \in {separator, LF}
        /\ \A k \in E(c) : l <= k
    <3>1. E(c) \subseteq Nat
      OBVIOUS
    <3>2. l \in E(c) /\ \A k \in E(c) : l <= k
      <4> HIDE DEF E
      <4> QED BY <1>5, <3>1, LeastProperties
    <3> HIDE DEF l
    <3> QED BY <3>2
  <2>2. l \in Nat /\ l >= 1 /\ l < Len(c) /\ l + 1 \in 0 .. Len(a)
    <3> HIDE DEF l
    <3> QED BY <1>3, <2>1
  <2>3. CASE l >= m
    <3>1. m < Len(c) /\ l = m /\ l + 1 = Len(c)
      <4> HIDE DEF l
      <4> QED BY <1>3, <2>2, <2>3
    <3>2. ~CappedFinal(a, FALSE) /\ c = a
      <4>1. m # Len(c)
        BY <1>3, <3>1
      <4> QED BY <1>3, <4>1, Zenon
    <3>3. At(c, l) = separator
      <4>1. At(c, l) = CR
        <5> HIDE DEF l
        <5> QED BY <1>3, <3>1
      <4> HIDE DEF l
      <4> QED BY <2>1, <4>1 DEF CR, LF
    <3>4. x = after_message(a, Len(a), FALSE)
      <4> HIDE DEF E, l
      <4> QED BY <1>1, <1>5, <3>1, <3>2, <3>3 DEF l
    <3>5. Slice(a, Len(a), Len(a)) = <<>>
      BY <1>3, ShortSlices
    <3>6. x = Waiting
      BY <3>4, <3>5 DEF after_message
    <3> QED BY <3>6 DEF Same, x
  <2>4. CASE l < m
    <3>1. l \in E(d) /\ \A k \in E(d) : l <= k
      <4> HIDE DEF l
      <4>1. l \in value_start .. Len(d) - 1 /\ At(d, l) = At(c, l)
        BY <1>3, <2>1, <2>2, <2>4
      <4>2. l \in E(d)
        BY <2>1, <4>1
      <4>3. \A k \in E(d) : l <= k
        <5> SUFFICES ASSUME NEW k \in E(d), k < l PROVE FALSE
          BY <2>2
        <5>1. k \in value_start .. Len(c) - 1 /\ At(c, k) = At(d, k)
          BY <1>3, <2>2, <2>4
        <5>2. k \in E(c)
          BY <5>1
        <5> QED BY <2>1, <2>2, <5>2
      <4> QED BY <4>2, <4>3
    <3>2. Least(E(d)) = l /\ E(d) # {}
      <4>1. E(d) \subseteq Nat
        OBVIOUS
      <4> HIDE DEF E, l
      <4> QED BY <3>1, <4>1, LeastIs
    <3>3. At(d, l) = At(c, l) /\ At(d, l - 1) = At(c, l - 1)
      <4> HIDE DEF l
      <4> QED BY <1>3, <2>2, <2>4
    <3>4. at_line_break(c, l, FALSE) = at_line_break(d, l, FALSE)
      <4> HIDE DEF l
      <4> QED BY <3>3 DEF at_line_break
    <3>5. Same(after_message(a, l + 1, FALSE), after_message(b, l + 1, TRUE))
      <4> HIDE DEF l
      <4> QED BY <1>3, <2>2, AfterMessageSame
    <3>6. x = IF At(c, l) = separator THEN after_message(a, l + 1, FALSE)
              ELSE at_line_break(c, l, FALSE)
      <4> HIDE DEF E
      <4> QED BY <1>1, <1>5, Zenon
    <3>7. y = IF At(d, l) = separator THEN after_message(b, l + 1, TRUE)
              ELSE at_line_break(d, l, FALSE)
      <4> HIDE DEF E, l
      <4> QED BY <1>2, <3>2
    <3> HIDE DEF l
    <3>8. CASE At(c, l) = separator
      BY <3>3, <3>5, <3>6, <3>7, <3>8 DEF x, y
    <3>9. CASE At(c, l) # separator
      <4>1. x = y
        BY <3>3, <3>4, <3>6, <3>7, <3>9
      <4> QED BY <4>1 DEF Same, x, y
    <3> QED BY <3>8, <3>9
  <2>5. l >= m \/ l < m
    <3> HIDE DEF l
    <3> QED BY <1>3, <2>2
  <2> QED BY <2>3, <2>4, <2>5, Zenon
<1> QED BY <1>4, <1>5

\* The end that the digits of BodyLength give.
LEMMA EndByDigitsSame ==
  ASSUME NEW a, NEW b, NEW c, NEW d, NEW m, Cut(a, b, c, d, m),
         NEW from \in Nat, from <= m, NEW separator \in Byte
  PROVE  Same(EndByDigits(a, c, from, RunEnd(c, from, Digit), separator, FALSE),
              EndByDigits(b, d, from, RunEnd(d, from, Digit), separator, TRUE))
<1> DEFINE e == RunEnd(c, from, Digit)
           g == RunEnd(d, from, Digit)
           x == EndByDigits(a, c, from, e, separator, FALSE)
           y == EndByDigits(b, d, from, g, separator, TRUE)
           bc == parse_u32(Slice(c, from, e))
           bd == parse_u32(Slice(d, from, g))
           tc == e + 1 + bc
           td == g + 1 + bd
           pattern == <<separator>> \o CHECKSUM_TAG
<1>1. x = IF e - from > MAX_BODY_LENGTH_DIGITS THEN NoEnd
          ELSE IF e = Len(c) THEN IF CappedFinal(a, FALSE) THEN NoEnd ELSE Waiting
          ELSE IF At(c, e) # separator \/ bc = None THEN NoEnd
          ELSE IF Len(c) < tc + 3 THEN IF CappedFinal(a, FALSE) THEN NoEnd ELSE Waiting
          ELSE IF ~Matches(c, tc - 1, pattern) THEN NoEnd
          ELSE ChecksumEnd(a, c, tc + 3, separator, FALSE)
  <2> HIDE DEF e
  <2> QED BY Zenon DEF EndByDigits
<1>2. y = IF g - from > MAX_BODY_LENGTH_DIGITS THEN NoEnd
          ELSE IF g = Len(d) THEN IF CappedFinal(b, TRUE) THEN NoEnd ELSE Waiting
          ELSE IF At(d, g) # separator \/ bd = None THEN NoEnd
          ELSE IF Len(d) < td + 3 THEN IF CappedFinal(b, TRUE) THEN NoEnd ELSE Waiting
          ELSE IF ~Matches(d, td - 1, pattern) THEN NoEnd
          ELSE ChecksumEnd(b, d, td + 3, separator, TRUE)
  <2> HIDE DEF g
  <2> QED BY Zenon DEF EndByDigits
<1>3. /\ a \in Seq(Byte) /\ b \in Seq(Byte) /\ c \in Seq(Byte) /\ d \in Seq(Byte)
      /\ Len(a) \in Nat /\ Len(c) \in Nat /\ Len(d) \in Nat /\ m \in Nat /\ Begins(a, b)
      /\ m <= Len(c) /\ m <= Len(d) /\ \A k \in 0 .. m - 1 : At(c, k) = At(d, k)
      /\ m < Len(c) => m = Len(c) - 1 /\ At(c, m) = CR
      /\ Len(c) <= Len(a) /\ CappedFinal(b, TRUE)
      /\ CappedFinal(a, FALSE) => d = c /\ m = Len(c)
      /\ ~CappedFinal(a, FALSE) => c = a
  BY CutFacts, Zenon
<1>4. Shared(c, d, m) /\ (m < Len(c) => m = Len(d))
  BY DEF Cut, Shared
<1>5. /\ e \in from .. Len(c) /\ \A i \in from .. e - 1 : At(c, i) \in Digit
      /\ g \in from .. Len(d)
      /\ e < m => g = e
      /\ e >= m => g >= m
  <2>1. from <= Len(c) /\ from <= Len(d)
    BY <1>3
  <2>2. e \in from .. Len(c) /\ \A i \in from .. e - 1 : At(c, i) \in Digit
    BY <1>3, <2>1, RunEndProperties
  <2>3. g \in from .. Len(d)
    BY <1>3, <2>1, RunEndProperties
  <2>4. (e < m => g = e) /\ (e >= m => g >= m)
    BY <1>4, SharedRun
  <2> QED BY <2>2, <2>3, <2>4
<1>6. /\ e \in Nat /\ g \in Nat /\ from <= e /\ e <= Len(c) /\ g <= Len(d)
  <2> HIDE DEF e, g
  <2> QED BY <1>3, <1>5
<1>7. bc \in Nat \cup {None}
  <2> HIDE DEF e
  <2> QED BY <1>3, <1>6, ParseU32
<1>8. e < m => bd = bc
  <2> SUFFICES ASSUME e < m PROVE bd = bc
    OBVIOUS
  <2>1. g = e
    BY <1>5
  <2> HIDE DEF e, g
  <2>2. e <= m
    BY <1>3, <1>6
  <2>3. Slice(d, from, e) = Slice(c, from, e)
    BY <1>4, <1>6, <2>2, SharedSlice
  <2> QED BY <2>1, <2>3
<1>p. /\ pattern \in Seq(Byte) /\ Len(pattern) = 4 /\ pattern[4] = EQUALS
  BY DEF CHECKSUM_TAG, EQUALS, Byte
<1> HIDE DEF x, y, e, g, bc, bd, pattern
<1>9. CASE e < m
  <2>1. g = e /\ bd = bc /\ td = tc
    BY <1>5, <1>8, <1>9
  <2>2. e # Len(c) /\ g # Len(d) /\ At(d, g) = At(c, e)
    BY <1>3, <1>6, <1>9, <2>1
  <2>3. CASE \/ e - from > MAX_BODY_LENGTH_DIGITS
             \/ At(c, e) # separator \/ bc = None
    <3>1. x = NoEnd /\ y = NoEnd
      BY <1>1, <1>2, <2>1, <2>2, <2>3
    <3> QED BY <3>1 DEF Same, x, y, e, g
  <2>4. CASE ~(e - from > MAX_BODY_LENGTH_DIGITS) /\ At(c, e) = separator /\ bc # None
    <3>0. tc \in Nat /\ tc >= 1 /\ tc - 1 \in Nat /\ tc + 3 \in Nat \ {0} /\ (tc - 1) + 4 = tc + 3
      BY <1>6, <1>7, <2>4
    <3>1. x = IF Len(c) < tc + 3 THEN IF CappedFinal(a, FALSE) THEN NoEnd ELSE Waiting
              ELSE IF ~Matches(c, tc - 1, pattern) THEN NoEnd
              ELSE ChecksumEnd(a, c, tc + 3, separator, FALSE)
      BY <1>1, <2>2, <2>4
    <3>2. y = IF Len(d) < tc + 3 THEN NoEnd
              ELSE IF ~Matches(d, tc - 1, pattern) THEN NoEnd
              ELSE ChecksumEnd(b, d, tc + 3, separator, TRUE)
      BY <1>2, <1>3, <2>1, <2>2, <2>4
    <3> HIDE DEF tc, td
    <3>3. CASE Len(c) < tc + 3
      <4>1. CASE CappedFinal(a, FALSE)
        <5>1. d = c
          BY <1>3, <4>1
        <5>2. x = NoEnd /\ y = NoEnd
          BY <3>1, <3>2, <3>3, <4>1, <5>1
        <5> QED BY <5>2 DEF Same, x, y, e, g
      <4>2. CASE ~CappedFinal(a, FALSE)
        BY <3>1, <3>3, <4>2 DEF Same, x, e
      <4> QED BY <4>1, <4>2
    <3>4. CASE tc + 3 <= m
      <4>1. ~(Len(c) < tc + 3) /\ ~(Len(d) < tc + 3)
        BY <1>3, <3>0, <3>4
      <4>2. Matches(d, tc - 1, pattern) <=> Matches(c, tc - 1, pattern)
        BY <1>4, <1>p, <3>0, <3>4, SharedMatches
      <4>3. Same(ChecksumEnd(a, c, tc + 3, separator, FALSE),
                 ChecksumEnd(b, d, tc + 3, separator, TRUE))
        BY <3>0, ChecksumEndSame
      <4>4. CASE Matches(c, tc - 1, pattern)
        <5>1. /\ x = ChecksumEnd(a, c, tc + 3, separator, FALSE)
              /\ y = ChecksumEnd(b, d, tc + 3, separator, TRUE)
          BY <3>1, <3>2, <4>1, <4>2, <4>4, Zenon
        <5>2. Same(x, y)
          BY <4>3, <5>1
        <5> QED BY <5>2 DEF x, y, e, g
      <4>5. CASE ~Matches(c, tc - 1, pattern)
        <5>1. x = NoEnd /\ y = NoEnd
          BY <3>1, <3>2, <4>1, <4>2, <4>5, Zenon
        <5> QED BY <5>1 DEF Same, x, y, e, g
      <4> QED BY <4>4, <4>5
    <3>5. CASE ~(Len(c) < tc + 3) /\ ~(tc + 3 <= m)
      <4>1. m < Len(c) /\ tc + 3 = m + 1 /\ (tc - 1) + 4 = m + 1 /\ Len(d) < tc + 3
        BY <1>3, <1>4, <3>0, <3>5
      <4>2. c[m + 1] = CR
        BY <1>3, <4>1 DEF At
      <4>3. ~Matches(c, tc - 1, pattern)
        <5> SUFFICES ASSUME Matches(c, tc - 1, pattern) PROVE FALSE
          OBVIOUS
        <5>1. \A j \in 1 .. Len(pattern) : c[(tc - 1) + j] = pattern[j]
          BY DEF Matches
        <5>2. c[(tc - 1) + 4] = EQUALS
          BY <1>p, <5>1
        <5> QED BY <4>1, <4>2, <5>2 DEF CR, EQUALS
      <4>4. x = NoEnd /\ y = NoEnd
        BY <3>1, <3>2, <3>5, <4>1, <4>3
      <4> QED BY <4>4 DEF Same, x, y, e, g
    <3> QED BY <1>3, <3>0, <3>3, <3>4, <3>5
  <2> QED BY <2>3, <2>4
<1>10. CASE e >= m
  <2>1. e = m
    <3> SUFFICES ASSUME e # m PROVE FALSE
      OBVIOUS
    <3>1. m < Len(c) /\ m \in from .. e - 1 /\ At(c, m) = CR
      BY <1>3, <1>6, <1>10
    <3>2. At(c, m) \in Digit
      BY <1>5, <3>1
    <3> QED BY <3>1, <3>2 DEF CR, Digit
  <2>2. CASE e - from > MAX_BODY_LENGTH_DIGITS
    <3>1. g - from > MAX_BODY_LENGTH_DIGITS
      BY <1>3, <1>5, <1>6, <2>1, <2>2, Limits
    <3>2. x = NoEnd /\ y = NoEnd
      BY <1>1, <1>2, <2>2, <3>1
    <3> QED BY <3>2 DEF Same, x, y, e, g
  <2>3. CASE ~(e - from > MAX_BODY_LENGTH_DIGITS) /\ e = Len(c)
    <3>1. CASE CappedFinal(a, FALSE)
      <4>1. d = c /\ g = e
        BY <1>3, <3>1 DEF e, g
      <4>2. x = NoEnd /\ y = NoEnd
        BY <1>1, <1>2, <1>3, <2>3, <3>1, <4>1
      <4> QED BY <4>2 DEF Same, x, y, e, g
    <3>2. CASE ~CappedFinal(a, FALSE)
      BY <1>1, <2>3, <3>2 DEF Same, x, e
    <3> QED BY <3>1, <3>2
  <2>4. CASE ~(e - from > MAX_BODY_LENGTH_DIGITS) /\ e # Len(c)
    <3>1. m < Len(c) /\ m = Len(c) - 1 /\ m = Len(d) /\ g = m
      BY <1>3, <1>4, <1>5, <1>6, <2>1, <2>4
    <3>2. y = NoEnd
      BY <1>2, <1>3, <2>1, <2>4, <3>1
    <3>3. ~CappedFinal(a, FALSE)
      <4>1. m # Len(c)
        BY <1>3, <3>1
      <4> QED BY <1>3, <4>1, Zenon
    <3>4. CASE At(c, e) # separator \/ bc = None
      <4>1. x = NoEnd
        BY <1>1, <2>4, <3>4
      <4> QED BY <3>2, <4>1 DEF Same, x, y, e, g
    <3>5. CASE ~(At(c, e) # separator \/ bc = None)
      <4>1. Len(c) < tc + 3
        BY <1>3, <1>6, <1>7, <2>1, <3>1, <3>5
      <4>2. x = Waiting
        BY <1>1, <2>4, <3>3, <3>5, <4>1
      <4> QED BY <4>2 DEF Same, x, e
    <3> QED BY <3>4, <3>5
  <2> QED BY <2>2, <2>3, <2>4
<1>11. e < m \/ e >= m
  BY <1>3, <1>6
<1> QED BY <1>9, <1>10, <1>11, Zenon

\* BodyLength gives the same end, when the separator it is behind is followed by
\* two bytes that a and b share.
LEMMA ByBodyLengthSame ==
  ASSUME NEW a, NEW b, NEW m, Cut(a, b, Capped(a, FALSE), Capped(b, TRUE), m),
         NEW separator \in Byte, NEW i \in Nat, i + 3 <= m, At(Capped(a, FALSE), i) = separator
  PROVE  Same(by_body_length(a, separator, FALSE), by_body_length(b, separator, TRUE))
<1> DEFINE c == Capped(a, FALSE)
           d == Capped(b, TRUE)
           r == RunEnd(c, 0, Byte \ {separator})
           q == RunEnd(d, 0, Byte \ {separator})
           x == by_body_length(a, separator, FALSE)
           y == by_body_length(b, separator, TRUE)
<1>1. /\ x = EndByTag(a, c, r + 1, separator, FALSE)
      /\ y = EndByTag(b, d, q + 1, separator, TRUE)
  BY Zenon DEF by_body_length
<1>2. Cut(a, b, c, d, m) /\ At(c, i) = separator
  OBVIOUS
<1> HIDE DEF c, d, x, y
<1>3. Shared(c, d, m) /\ c \in Seq(Byte) /\ Len(c) \in Nat /\ m \in Nat /\ m <= Len(c)
  BY <1>2, CutFacts DEF Cut
<1>4. r \in 0 .. Len(c) /\ \A k \in 0 .. r - 1 : At(c, k) \in Byte \ {separator}
  <2>1. 0 \in Nat /\ 0 <= Len(c)
    BY <1>3
  <2> HIDE DEF r
  <2> QED BY <1>3, <2>1, RunEndProperties DEF r
<1>5. q = r \/ r >= m
  <2>1. 0 \in Nat /\ 0 <= m
    BY <1>3
  <2> HIDE DEF r, q
  <2>2. r < m => q = r
    BY <1>3, <2>1, SharedRun DEF r, q
  <2> QED BY <1>3, <1>4, <2>2
<1> HIDE DEF r, q
<1>6. r <= i
  <2> SUFFICES ASSUME ~(r <= i) PROVE FALSE
    OBVIOUS
  <2>1. i \in 0 .. r - 1
    BY <1>4
  <2> QED BY <1>2, <1>4, <2>1
<1>7. q = r /\ r + 1 \in Nat /\ (r + 1) + 2 <= m /\ (r + 1) + 2 \in Nat
  BY <1>3, <1>4, <1>5, <1>6
<1>8. Matches(d, r + 1, BODY_LENGTH_TAG) <=> Matches(c, r + 1, BODY_LENGTH_TAG)
  <2>1. BODY_LENGTH_TAG \in Seq(Byte) /\ Len(BODY_LENGTH_TAG) = 2
    BY DEF BODY_LENGTH_TAG, Byte
  <2> QED BY <1>3, <1>7, <2>1, SharedMatches
<1> DEFINE n == (r + 1) + 2
<1>9. Same(EndByDigits(a, c, n, RunEnd(c, n, Digit), separator, FALSE),
           EndByDigits(b, d, n, RunEnd(d, n, Digit), separator, TRUE))
  <2>1. n \in Nat /\ n <= m
    BY <1>7
  <2> HIDE DEF n
  <2> QED BY <1>2, <2>1, EndByDigitsSame
<1>10. CASE Matches(c, r + 1, BODY_LENGTH_TAG)
  <2>1. x = EndByDigits(a, c, n, RunEnd(c, n, Digit), separator, FALSE)
    BY <1>1, <1>10, Zenon DEF EndByTag
  <2>2. y = EndByDigits(b, d, n, RunEnd(d, n, Digit), separator, TRUE)
    BY <1>1, <1>7, <1>8, <1>10, Zenon DEF EndByTag
  <2> HIDE DEF n
  <2> QED BY <1>9, <2>1, <2>2 DEF x, y
<1>11. CASE ~Matches(c, r + 1, BODY_LENGTH_TAG)
  <2>1. x = NoEnd
    BY <1>1, <1>11, Zenon DEF EndByTag
  <2>2. y = NoEnd
    BY <1>1, <1>7, <1>8, <1>11, Zenon DEF EndByTag
  <2> QED BY <2>1, <2>2 DEF Same, x, y
<1> QED BY <1>10, <1>11

\* What a search of b from an offset on, up to another, comes to: no candidate is
\* decided, the first that is decided may become a start, or is one.
NoneDecided(b, from, to, s, at_end) ==
  \A i \in from .. to - 1 :
     Candidate(b, i) => Undecided(check(Slice(b, i, Len(b)), s), at_end)

FoundFirst(b, from, s, at_end, x, i) ==
  LET start == check(Slice(b, i, Len(b)), s)
  IN  /\ x = [kind |-> "Found", at |-> i, separator |-> start.separator]
      /\ Candidate(b, i) /\ start.kind = "Start"
      /\ NoneDecided(b, from, i, s, at_end)

SearchIs(b, from, to, s, at_end, x) ==
  \/ x = [kind |-> "NotFound"] /\ NoneDecided(b, from, to, s, at_end)
  \/ x.kind = "Pending" /\ ~at_end
  \/ \E i \in from .. to - 1 : FoundFirst(b, from, s, at_end, x, i)

\* find_start is such a search.
LEMMA FindStartIs ==
  ASSUME NEW b \in Seq(Byte), NEW from \in Nat, NEW to \in Nat, NEW s, NEW at_end \in BOOLEAN
  PROVE  SearchIs(b, from, to, s, at_end, find_start(b, from, to, s, at_end))
<1> DEFINE D == {i \in from .. to - 1 : /\ At(b, i) = 56
                                        /\ i > 0 => At(b, i - 1) \notin Digit}
           checked == [at \in D |-> check(Slice(b, at, Len(b)), s)]
           decided == {at \in DOMAIN checked :
                         \/ checked[at].kind = "Start"
                         \/ checked[at].kind = "Pending" /\ ~at_end}
           first == Least(decided)
           x == find_start(b, from, to, s, at_end)
<1>1. x = IF decided = {} THEN [kind |-> "NotFound"]
          ELSE IF checked[first].kind = "Pending" THEN [kind |-> "Pending", at |-> first]
          ELSE [kind |-> "Found", at |-> first, separator |-> checked[first].separator]
  BY Zenon DEF find_start, FirstDecided
<1>2. /\ DOMAIN checked = D /\ \A i \in D : checked[i] = check(Slice(b, i, Len(b)), s)
      /\ D \subseteq from .. to - 1
      /\ \A i \in from .. to - 1 : i \in D <=> Candidate(b, i)
  <2>1. \A i \in from .. to - 1 : i \in D <=> Candidate(b, i)
    BY DEF Candidate
  <2> QED BY <2>1
<1> HIDE DEF checked, D
<1>3. \A i \in D : i \in decided \/ Undecided(check(Slice(b, i, Len(b)), s), at_end)
  BY <1>2, Zenon DEF Undecided
<1>4. CASE decided = {}
  <2>1. x = [kind |-> "NotFound"]
    BY <1>1, <1>4
  <2>2. NoneDecided(b, from, to, s, at_end)
    BY <1>2, <1>3, <1>4, Zenon DEF NoneDecided
  <2> QED BY <2>1, <2>2 DEF SearchIs
<1>5. CASE decided # {}
  <2>1. /\ first \in decided /\ \A n \in decided : first <= n
    <3>1. decided \subseteq Nat
      BY <1>2
    <3> HIDE DEF decided
    <3> QED BY <1>5, <3>1, LeastProperties
  <2>2. /\ first \in D
        /\ \/ checked[first].kind = "Start"
           \/ checked[first].kind = "Pending" /\ ~at_end
    <3>1. \A n \in decided : /\ n \in DOMAIN checked
                             /\ \/ checked[n].kind = "Start"
                                \/ checked[n].kind = "Pending" /\ ~at_end
      BY Zenon
    <3> HIDE DEF decided, first
    <3> QED BY <1>2, <2>1, <3>1
  <2>3. NoneDecided(b, from, first, s, at_end)
    <3> SUFFICES ASSUME NEW i \in from .. first - 1, Candidate(b, i)
                 PROVE  Undecided(check(Slice(b, i, Len(b)), s), at_end)
      BY DEF NoneDecided
    <3>1. first \in from .. to - 1
      BY <1>2, <2>2
    <3> HIDE DEF first, decided
    <3>2. i \in from .. to - 1 /\ ~(first <= i)
      BY <3>1
    <3> QED BY <1>2, <1>3, <2>1, <3>2
  <2>4. first \in from .. to - 1 /\ Candidate(b, first)
        /\ checked[first] = check(Slice(b, first, Len(b)), s)
    <3> HIDE DEF first, decided
    <3> QED BY <1>2, <2>2
  <2> HIDE DEF first, decided, x
  <2>5. CASE checked[first].kind = "Pending"
    <3>1. x = [kind |-> "Pending", at |-> first]
      BY <1>1, <1>5, <2>5, Zenon
    <3>2. x.kind = "Pending" /\ ~at_end
      BY <2>2, <2>5, <3>1
    <3> QED BY <3>2 DEF SearchIs, x
  <2>6. CASE checked[first].kind # "Pending"
    <3>1. x = [kind |-> "Found", at |-> first, separator |-> checked[first].separator]
      BY <1>1, <1>5, <2>6, Zenon
    <3>2. FoundFirst(b, from, s, at_end, x, first)
      <4>1. checked[first].kind = "Start"
        BY <2>2, <2>6
      <4> QED BY <2>3, <2>4, <3>1, <4>1, Zenon DEF FoundFirst
    <3> QED BY <2>4, <3>2, Zenon DEF SearchIs, x
  <2> QED BY <2>5, <2>6
<1> QED BY <1>4, <1>5

\* What a search of a that ends at to decides is what one of b that ends at upto
\* does.
SearchDecides(a, from, to, upto, s) ==
  /\ find_start(a, from, to, s, FALSE).kind # "Pending"
  /\ \/ upto = to
     \/ /\ find_start(a, from, to, s, FALSE).kind = "Found"
        /\ find_start(a, from, to, s, FALSE).at < upto

SearchAgrees(a, b, from, to, upto, s) ==
  find_start(b, from, upto, s, TRUE) = find_start(a, from, to, s, FALSE)

\* A start, once found, is found in the whole log.
LEMMA FindStartSame ==
  ASSUME NEW a \in Seq(Byte), NEW b \in Seq(Byte), Begins(a, b), NEW from \in Nat,
         NEW s \in Byte \cup {None}, NEW to \in Nat, NEW upto \in Nat, to <= Len(a),
         SearchDecides(a, from, to, upto, s)
  PROVE  SearchAgrees(a, b, from, to, upto, s)
<1> SUFFICES ASSUME find_start(a, from, to, s, FALSE).kind # "Pending",
                    \/ upto = to
                    \/ /\ find_start(a, from, to, s, FALSE).kind = "Found"
                       /\ find_start(a, from, to, s, FALSE).at < upto
             PROVE  find_start(b, from, upto, s, TRUE) = find_start(a, from, to, s, FALSE)
  BY DEF SearchDecides, SearchAgrees
<1> DEFINE x == find_start(a, from, to, s, FALSE)
           y == find_start(b, from, upto, s, TRUE)
           p(i) == check(Slice(a, i, Len(a)), s)
           q(i) == check(Slice(b, i, Len(b)), s)
<1>1. SearchIs(a, from, to, s, FALSE, x)
  BY FindStartIs
<1>2. SearchIs(b, from, upto, s, TRUE, y)
  BY FindStartIs
<1>3. x.kind # "Pending" /\ (upto = to \/ (x.kind = "Found" /\ x.at < upto))
  OBVIOUS
<1> HIDE DEF x, y
<1>4. \A i \in from .. to - 1 : Candidate(b, i) <=> Candidate(a, i)
  <2> SUFFICES ASSUME NEW i \in from .. to - 1 PROVE Candidate(b, i) <=> Candidate(a, i)
    OBVIOUS
  <2>1. At(a, i) = At(b, i) /\ (i > 0 => At(a, i - 1) = At(b, i - 1))
    <3>1. i + 1 \in 1 .. Len(a) /\ (i > 0 => (i - 1) + 1 \in 1 .. Len(a))
      OBVIOUS
    <3> QED BY <3>1 DEF Begins, At
  <2> QED BY <2>1 DEF Candidate
<1>5. \A i \in from .. to - 1 : p(i).kind # "Pending" => q(i) = p(i)
  <2> SUFFICES ASSUME NEW i \in from .. to - 1, p(i).kind # "Pending" PROVE q(i) = p(i)
    OBVIOUS
  <2>1. i \in Nat /\ i <= Len(a)
    OBVIOUS
  <2>2. /\ Begins(Slice(a, i, Len(a)), Slice(b, i, Len(b)))
        /\ Slice(a, i, Len(a)) \in Seq(Byte) /\ Slice(b, i, Len(b)) \in Seq(Byte)
    BY <2>1, BeginsSlice
  <2>3. p(i) # Pending
    <3>1. Pending.kind = "Pending"
      BY DEF Pending
    <3> HIDE DEF p
    <3> QED BY <3>1
  <2> QED BY <2>2, <2>3, CheckStable
<1> HIDE DEF p, q
<1>6. \A i \in from .. to - 1 :
         (Candidate(a, i) => Undecided(p(i), FALSE)) => (Candidate(b, i) => Undecided(q(i), TRUE))
  BY <1>4, <1>5 DEF Undecided
<1>7. \A n \in Int : n <= to /\ NoneDecided(a, from, n, s, FALSE)
                       => NoneDecided(b, from, n, s, TRUE)
  <2> SUFFICES ASSUME NEW n \in Int, n <= to, NoneDecided(a, from, n, s, FALSE),
                      NEW i \in from .. n - 1, Candidate(b, i)
               PROVE  Undecided(q(i), TRUE)
    BY DEF NoneDecided, q
  <2>1. i \in from .. to - 1
    OBVIOUS
  <2>2. Candidate(a, i) => Undecided(p(i), FALSE)
    BY DEF NoneDecided, p
  <2> QED BY <1>6, <2>1, <2>2
<1>8. \A i, j \in Int : from <= i /\ i < j /\ NoneDecided(b, from, j, s, TRUE)
                          => \A n : ~FoundFirst(b, from, s, TRUE, n, i)
  <2> SUFFICES ASSUME NEW i \in Int, NEW j \in Int, NEW n, from <= i, i < j,
                      FoundFirst(b, from, s, TRUE, n, i), NoneDecided(b, from, j, s, TRUE)
               PROVE  FALSE
    OBVIOUS
  <2>1. Candidate(b, i) /\ q(i).kind = "Start"
    BY DEF FoundFirst, q
  <2>2. i \in from .. j - 1
    OBVIOUS
  <2>3. Undecided(q(i), TRUE)
    BY <2>1, <2>2 DEF NoneDecided, q
  <2> QED BY <2>1, <2>3 DEF Undecided
<1>9. CASE x = [kind |-> "NotFound"] /\ NoneDecided(a, from, to, s, FALSE)
  <2>1. upto = to
    BY <1>3, <1>9
  <2>2. NoneDecided(b, from, upto, s, TRUE)
    <3>1. upto \in Int /\ upto <= to
      BY <2>1
    <3> QED BY <1>7, <1>9, <2>1, <3>1, Zenon
  <2>3. \A i \in from .. upto - 1 : ~FoundFirst(b, from, s, TRUE, y, i)
    <3> SUFFICES ASSUME NEW i \in from .. upto - 1 PROVE ~FoundFirst(b, from, s, TRUE, y, i)
      OBVIOUS
    <3>1. i \in Int /\ upto \in Int /\ from <= i /\ i < upto
      OBVIOUS
    <3> QED BY <1>8, <2>2, <3>1, Zenon
  <2>4. y = [kind |-> "NotFound"]
    BY <1>2, <2>3 DEF SearchIs
  <2> QED BY <1>9, <2>4 DEF x, y
<1>10. CASE \E i \in from .. to - 1 : FoundFirst(a, from, s, FALSE, x, i)
  <2>1. PICK i \in from .. to - 1 : FoundFirst(a, from, s, FALSE, x, i)
    BY <1>10
  <2>2. /\ x = [kind |-> "Found", at |-> i, separator |-> p(i).separator]
        /\ Candidate(a, i) /\ p(i).kind = "Start" /\ NoneDecided(a, from, i, s, FALSE)
    BY <2>1 DEF FoundFirst, p
  <2>i. x.at = i
    BY <2>2
  <2>u. i < upto
    BY <1>3, <2>i
  <2>3. q(i) = p(i) /\ Candidate(b, i)
    BY <1>4, <1>5, <2>2
  <2>4. NoneDecided(b, from, i, s, TRUE)
    <3>1. i \in Int /\ i <= to
      OBVIOUS
    <3> QED BY <1>7, <2>2, <3>1, Zenon
  <2>5. FoundFirst(b, from, s, TRUE, x, i)
    BY <2>2, <2>3, <2>4 DEF FoundFirst, q
  <2>6. ~NoneDecided(b, from, upto, s, TRUE)
    <3>1. i \in Int /\ upto \in Int /\ from <= i /\ i < upto
      BY <2>u
    <3> QED BY <1>8, <2>5, <3>1, Zenon
  <2>7. PICK j \in from .. upto - 1 : FoundFirst(b, from, s, TRUE, y, j)
    BY <1>2, <2>6 DEF SearchIs
  <2>8. NoneDecided(b, from, j, s, TRUE)
    BY <2>7 DEF FoundFirst
  <2>9. ~(i < j) /\ ~(j < i)
    <3>1. i \in Int /\ j \in Int /\ from <= i /\ from <= j
      OBVIOUS
    <3> QED BY <1>8, <2>4, <2>5, <2>7, <2>8, <3>1, Zenon
  <2>10. i = j
    BY <2>9
  <2>11. y = [kind |-> "Found", at |-> i, separator |-> q(i).separator]
    BY <2>7, <2>10 DEF FoundFirst, q
  <2> QED BY <2>2, <2>3, <2>11 DEF x, y
<1> QED BY <1>1, <1>3, <1>9, <1>10 DEF SearchIs

SearchEnd(breaks, checked_end) == IF breaks = {} THEN checked_end ELSE Least(breaks)

\* What is found of a start in a field.
StartIn(bytes, capped, from, to, s, at_end) ==
  find_start(bytes, from, SearchEnd(Positions(capped, from, to, LF), to), s, at_end)

\* What the search of a field up to cu finds of c, and that up to cv of d.
SearchedAlike(a, b, c, d, m, s, from, cu, cv) ==
  LET bu == Positions(c, from, cu, LF)
      bv == Positions(d, from, cv, LF)
      x == StartIn(a, c, from, cu, s, FALSE)
      y == StartIn(b, d, from, cv, s, TRUE)
  IN  /\ x.kind = "Found" => y = x
      /\ x.kind \notin {"Found", "Pending"} /\ bu # {} =>
           y = x /\ bv # {} /\ Least(bv) = Least(bu) /\ Least(bu) \in from .. m - 1
      /\ x.kind \notin {"Found", "Pending"} /\ bu = {} /\ cv = cu =>
           y = x /\ bv = {}

\* What is found in a field is found in the one that more bytes make of it.
LEMMA SearchSame ==
  ASSUME NEW a, NEW b, NEW c, NEW d, NEW m, Cut(a, b, c, d, m), NEW s \in Byte \cup {None},
         NEW from \in Nat, NEW cu \in Nat, cu <= Len(c), NEW cv \in Nat, cv <= Len(d),
         cv >= m \/ cv = cu
  PROVE  SearchedAlike(a, b, c, d, m, s, from, cu, cv)
<1> DEFINE bu == Positions(c, from, cu, LF)
           bv == Positions(d, from, cv, LF)
           eu == SearchEnd(bu, cu)
           ev == SearchEnd(bv, cv)
           x == find_start(a, from, eu, s, FALSE)
           y == find_start(b, from, ev, s, TRUE)
<1>1. /\ a \in Seq(Byte) /\ b \in Seq(Byte) /\ c \in Seq(Byte) /\ d \in Seq(Byte)
      /\ Len(a) \in Nat /\ Len(c) \in Nat /\ Len(d) \in Nat /\ m \in Nat /\ Begins(a, b)
      /\ m <= Len(c) /\ m <= Len(d) /\ \A k \in 0 .. m - 1 : At(c, k) = At(d, k)
      /\ m < Len(c) => m = Len(c) - 1 /\ At(c, m) = CR
      /\ Len(c) <= Len(a) /\ CappedFinal(b, TRUE)
      /\ CappedFinal(a, FALSE) => d = c /\ m = Len(c)
      /\ ~CappedFinal(a, FALSE) => c = a
  BY CutFacts, Zenon
<1>2. /\ bu = {k \in from .. cu - 1 : At(c, k) = LF}
      /\ bv = {k \in from .. cv - 1 : At(d, k) = LF}
  BY DEF Positions
<1>3. \A k \in bu : k \in Nat /\ from <= k /\ k < cu /\ k < m /\ At(c, k) = LF /\ At(d, k) = LF
  <2> SUFFICES ASSUME NEW k \in bu
               PROVE  k \in Nat /\ from <= k /\ k < cu /\ k < m /\ At(c, k) = LF /\ At(d, k) = LF
    OBVIOUS
  <2>1. k \in from .. cu - 1 /\ At(c, k) = LF
    BY <1>2
  <2>2. k # m \/ m = Len(c)
    BY <1>1, <2>1 DEF CR, LF
  <2>3. k < m
    BY <1>1, <2>1, <2>2
  <2> QED BY <1>1, <2>1, <2>3
<1>4. \A k \in bv : k \in Nat /\ from <= k /\ k < cv /\ At(d, k) = LF
  BY <1>2
<1>5. \A k \in bv : k < m /\ k < cu => k \in bu
  <2> SUFFICES ASSUME NEW k \in bv, k < m, k < cu PROVE k \in bu
    OBVIOUS
  <2>1. k \in Nat /\ from <= k /\ At(d, k) = LF
    BY <1>4
  <2> QED BY <1>1, <1>2, <2>1
<1>6. \A k \in bu : k < cv => k \in bv
  <2> SUFFICES ASSUME NEW k \in bu, k < cv PROVE k \in bv
    OBVIOUS
  <2>1. k \in Nat /\ from <= k /\ At(d, k) = LF
    BY <1>3
  <2> QED BY <1>2, <2>1
<1> HIDE DEF bu, bv
<1>7. bu \subseteq Nat /\ bv \subseteq Nat
  BY <1>3, <1>4
<1>8. bu # {} => Least(bu) \in bu /\ \A k \in bu : Least(bu) <= k
  BY <1>7, LeastProperties
<1>9. bv # {} => Least(bv) \in bv /\ \A k \in bv : Least(bv) <= k
  BY <1>7, LeastProperties
<1>10. eu \in Nat /\ eu <= Len(c) /\ eu <= cu /\ eu <= Len(a)
  BY <1>1, <1>3, <1>8 DEF SearchEnd
<1>11. ev \in Nat /\ ev <= cv
  BY <1>1, <1>4, <1>9 DEF SearchEnd
<1>12. bu # {} => bv # {} /\ Least(bv) = Least(bu) /\ Least(bu) \in from .. m - 1 /\ ev = eu
  <2> SUFFICES ASSUME bu # {}
               PROVE  bv # {} /\ Least(bv) = Least(bu) /\ Least(bu) \in from .. m - 1 /\ ev = eu
    OBVIOUS
  <2> DEFINE l == Least(bu)
  <2>1. l \in bu /\ \A k \in bu : l <= k
    BY <1>8
  <2>2. l \in Nat /\ from <= l /\ l < cu /\ l < m
    BY <1>3, <2>1
  <2> HIDE DEF l
  <2>3. l < cv
    BY <1>1, <2>2
  <2>4. l \in bv
    BY <1>6, <2>1, <2>3
  <2>5. \A k \in bv : l <= k
    <3> SUFFICES ASSUME NEW k \in bv, ~(l <= k) PROVE FALSE
      OBVIOUS
    <3>1. k \in Nat /\ k < l
      BY <1>4, <2>2
    <3>2. k \in bu
      BY <1>1, <1>5, <2>2, <3>1
    <3> QED BY <2>1, <2>2, <3>1, <3>2
  <2>6. Least(bv) = l
    BY <1>7, <2>4, <2>5, LeastIs
  <2>7. l \in from .. m - 1
    BY <1>1, <2>2
  <2>8. ev = l /\ eu = l
    BY <2>4, <2>6 DEF SearchEnd, l
  <2> QED BY <2>4, <2>6, <2>7, <2>8 DEF l
<1>13. bu = {} /\ cv = cu => bv = {} /\ ev = eu
  <2> SUFFICES ASSUME bu = {}, cv = cu PROVE bv = {} /\ ev = eu
    OBVIOUS
  <2>1. \A k \in bv : FALSE
    <3> SUFFICES ASSUME NEW k \in bv PROVE FALSE
      OBVIOUS
    <3>1. k \in Nat /\ k < cv /\ At(d, k) = LF
      BY <1>4
    <3>2. k < m \/ (m < Len(c) /\ k < Len(d))
      BY <1>1, <3>1
    <3>3. m < Len(c) => m = Len(d)
      BY DEF Cut, Shared
    <3>4. k < m
      BY <1>1, <3>1, <3>2, <3>3
    <3> QED BY <1>5, <3>1, <3>4
  <2> QED BY <2>1 DEF SearchEnd
<1>14. SearchIs(a, from, eu, s, FALSE, x)
  <2> HIDE DEF eu
  <2> QED BY <1>1, <1>10, FindStartIs
<1> HIDE DEF eu, ev, x, y
<1>15. ASSUME x.kind # "Pending", ev = eu PROVE y = x
  <2>1. eu \in Nat /\ eu <= Len(a) /\ ev \in Nat
    BY <1>10, <1>11
  <2>2. find_start(a, from, eu, s, FALSE).kind # "Pending"
    BY <1>15 DEF x
  <2>3. SearchDecides(a, from, eu, ev, s)
    BY <1>15, <2>2 DEF SearchDecides
  <2>4. SearchAgrees(a, b, from, eu, ev, s)
    BY <1>1, <2>1, <2>3, FindStartSame
  <2> QED BY <2>4 DEF x, y, SearchAgrees
<1>16. ASSUME x.kind = "Found" PROVE y = x
  <2>1. PICK i \in from .. eu - 1 : FoundFirst(a, from, s, FALSE, x, i)
    <3>1. x # [kind |-> "NotFound"] /\ x.kind # "Pending"
      BY <1>16
    <3> QED BY <1>14, <3>1, Zenon DEF SearchIs
  <2>2. x.at = i /\ At(a, i) = 56
    BY <2>1 DEF FoundFirst, Candidate
  <2>3. CASE bu # {}
    BY <1>12, <1>15, <1>16, <2>3
  <2>4. CASE bu = {}
    <3>1. eu = cu
      BY <2>4 DEF eu, SearchEnd
    <3>2. i < m
      <4>1. i \in Nat /\ i < Len(c)
        BY <1>10
      <4>2. i # m \/ m = Len(c)
        <5> SUFFICES ASSUME i = m, m < Len(c) PROVE FALSE
          BY <1>1
        <5>1. At(c, i) = CR /\ m # Len(c)
          BY <1>1
        <5>2. c = a
          BY <1>1, <5>1, Zenon
        <5> QED BY <2>2, <5>1, <5>2 DEF CR
      <4> QED BY <1>1, <4>1, <4>2
    <3>3. i < cv
      BY <1>1, <3>1, <3>2
    <3>4. i < ev
      <4>1. CASE bv = {}
        BY <3>3, <4>1 DEF ev, SearchEnd
      <4>2. CASE bv # {}
        <5> DEFINE l == Least(bv)
        <5>1. l \in bv /\ l \in Nat /\ ev = l
          BY <1>4, <1>9, <4>2 DEF ev, SearchEnd
        <5> HIDE DEF l
        <5>2. ~(l <= i)
          <6> SUFFICES ASSUME l <= i PROVE FALSE
            OBVIOUS
          <6>1. l < m /\ l < cu
            BY <1>1, <1>10, <3>1, <3>2, <5>1
          <6> QED BY <1>5, <2>4, <5>1, <6>1
        <5> QED BY <5>1, <5>2
      <4> QED BY <4>1, <4>2
    <3>5. x.kind = "Found" /\ x.at < ev /\ x.kind # "Pending"
      BY <1>16, <2>2, <3>4
    <3>6. eu \in Nat /\ eu <= Len(a) /\ ev \in Nat
      BY <1>10, <1>11
    <3>7. /\ find_start(a, from, eu, s, FALSE).kind # "Pending"
          /\ find_start(a, from, eu, s, FALSE).kind = "Found"
          /\ find_start(a, from, eu, s, FALSE).at < ev
      BY <3>5 DEF x
    <3>8. SearchDecides(a, from, eu, ev, s)
      BY <3>7 DEF SearchDecides
    <3>9. SearchAgrees(a, b, from, eu, ev, s)
      BY <1>1, <3>6, <3>8, FindStartSame
    <3> QED BY <3>9 DEF x, y, SearchAgrees
  <2> QED BY <2>3, <2>4
<1>17. ASSUME x.kind \notin {"Found", "Pending"}, bu # {}
       PROVE  y = x /\ bv # {} /\ Least(bv) = Least(bu) /\ Least(bu) \in from .. m - 1
  BY <1>12, <1>15, <1>17
<1>18. ASSUME x.kind \notin {"Found", "Pending"}, bu = {}, cv = cu
       PROVE  y = x /\ bv = {}
  BY <1>13, <1>15, <1>18
<1>19. /\ x.kind = "Found" => y = x
       /\ x.kind \notin {"Found", "Pending"} /\ bu # {} =>
            y = x /\ bv # {} /\ Least(bv) = Least(bu) /\ Least(bu) \in from .. m - 1
       /\ x.kind \notin {"Found", "Pending"} /\ bu = {} /\ cv = cu => y = x /\ bv = {}
  BY <1>16, <1>17, <1>18
<1> QED BY <1>19, Zenon DEF x, y, eu, ev, bu, bv, SearchedAlike, StartIn

IsCheckSum(is_field, field) == is_field /\ field.tag = CHECKSUM

\* What a turn comes to at a field without a start or a line break in it.
AtField(bytes, capped, is_field, field, at_end) ==
  IF ~is_field \/ field.value_end = Len(capped)
    THEN IF CappedFinal(bytes, at_end)
           THEN End(Len(capped), Len(capped), ~IsCheckSum(is_field, field))
           ELSE Waiting
  ELSE IF IsCheckSum(is_field, field) THEN after_message(bytes, field.value_end + 1, at_end)
  ELSE [kind |-> "Walking", after |-> field.value_end + 1,
        data_len |-> pending_data_len(capped, field)]

\* A turn that waits, or the next one does: nothing may join the bytes behind
\* the last separator.
WaitsNext(a, c, x) ==
  \/ x = Waiting
  \/ x.kind = "Walking" /\ x.after = Len(c) /\ ~CappedFinal(a, FALSE)

\* y is what x is if x is decided.
Agrees(a, c, x, y) == WaitsNext(a, c, x) \/ y = x

\* A line break ends the message at the same byte.
LEMMA LineBreakSame ==
  ASSUME NEW c, NEW d, NEW m, Shared(c, d, m), NEW at \in 1 .. m - 1, NEW p \in BOOLEAN,
         NEW q \in BOOLEAN, p <=> q
  PROVE  at_line_break(d, at, q) = at_line_break(c, at, p)
<1>1. At(d, at - 1) = At(c, at - 1)
  <2>1. at - 1 \in 0 .. m - 1
    BY DEF Shared
  <2> QED BY <2>1 DEF Shared
<1>2. p = q
  OBVIOUS
<1>3. at_line_break(d, at, q) = at_line_break(c, at, q)
  BY <1>1 DEF at_line_break
<1> QED BY <1>2, <1>3

\* What stops a field is a start in it, a line break, or its end.
LEMMA SearchFieldIs ==
  ASSUME NEW bytes, NEW capped, NEW is_field, NEW field, NEW from, NEW to, NEW s, NEW at_end
  PROVE  SearchField(bytes, capped, is_field, field, from, to, s, at_end)
           = StopAt(bytes, capped, is_field, field,
                    StartIn(bytes, capped, from, to, s, at_end),
                    Positions(capped, from, to, LF), at_end)
  BY Zenon DEF SearchField, SearchEnd, StartIn

\* What a and b come to of two fields without a start or a line break.
EndsAgree(a, b, c, d, is_c, f, is_d, g) ==
  Agrees(a, c, AtField(a, c, is_c, f, FALSE), AtField(b, d, is_d, g, TRUE))

EndWaits(a, c, is_c, f) == WaitsNext(a, c, AtField(a, c, is_c, f, FALSE))

\* What they come to of two fields that are searched up to cu and cv.
SearchesAgree(a, b, c, d, is_c, f, is_d, g, from, cu, cv, s) ==
  Agrees(a, c, SearchField(a, c, is_c, f, from, cu, s, FALSE),
         SearchField(b, d, is_d, g, from, cv, s, TRUE))

\* A line break ends the message as it should if both are a CheckSum, or none.
ChecksAlike(c, from, to, is_c, f, is_d, g) ==
  Positions(c, from, to, LF) # {} => (IsCheckSum(is_c, f) <=> IsCheckSum(is_d, g))

\* The search of c up to cu and that of d up to cv, as SearchSame compares them.
LEMMA SearchFieldSame ==
  ASSUME NEW a, NEW b, NEW c, NEW d, NEW m, Cut(a, b, c, d, m), NEW s \in Byte \cup {None},
         NEW from \in Nat \ {0}, NEW cu \in Nat, cu <= Len(c), NEW cv \in Nat, cv <= Len(d),
         cv >= m \/ cv = cu,
         NEW is_c, NEW f, NEW is_d, NEW g,
         ChecksAlike(c, from, cu, is_c, f, is_d, g),
         EndsAgree(a, b, c, d, is_c, f, is_d, g), cv = cu \/ EndWaits(a, c, is_c, f)
  PROVE  SearchesAgree(a, b, c, d, is_c, f, is_d, g, from, cu, cv, s)
<1> DEFINE bu == Positions(c, from, cu, LF)
           bv == Positions(d, from, cv, LF)
           x == StartIn(a, c, from, cu, s, FALSE)
           y == StartIn(b, d, from, cv, s, TRUE)
           u == SearchField(a, c, is_c, f, from, cu, s, FALSE)
           v == SearchField(b, d, is_d, g, from, cv, s, TRUE)
           tu == AtField(a, c, is_c, f, FALSE)
           tv == AtField(b, d, is_d, g, TRUE)
<1>1. u = StopAt(a, c, is_c, f, x, bu, FALSE) /\ v = StopAt(b, d, is_d, g, y, bv, TRUE)
  BY SearchFieldIs, Zenon
<1>2. /\ x.kind = "Found" => y = x
      /\ x.kind \notin {"Found", "Pending"} /\ bu # {} =>
           y = x /\ bv # {} /\ Least(bv) = Least(bu) /\ Least(bu) \in from .. m - 1
      /\ x.kind \notin {"Found", "Pending"} /\ bu = {} /\ cv = cu => y = x /\ bv = {}
  <2>1. from \in Nat
    OBVIOUS
  <2>2. SearchedAlike(a, b, c, d, m, s, from, cu, cv)
    BY <2>1, SearchSame
  <2> QED BY <2>2, Zenon DEF SearchedAlike
<1>3. /\ bu # {} => (IsCheckSum(is_c, f) <=> IsCheckSum(is_d, g))
      /\ Agrees(a, c, tu, tv)
      /\ cv = cu \/ WaitsNext(a, c, tu)
  BY DEF ChecksAlike, EndsAgree, EndWaits
<1>4. Shared(c, d, m)
  BY DEF Cut
<1> HIDE DEF bu, bv, x, y, u, v, tu, tv
<1> SUFFICES Agrees(a, c, u, v)
  BY DEF SearchesAgree, u, v
<1>5. CASE x.kind = "Pending"
  <2>1. u = Waiting
    BY <1>1, <1>5 DEF StopAt
  <2> QED BY <2>1 DEF Agrees, WaitsNext
<1>6. CASE x.kind = "Found"
  <2>1. u = End(x.at, x.at, TRUE) /\ y = x
    <3>1. u = End(x.at, x.at, TRUE)
      BY <1>1, <1>6 DEF StopAt
    <3> QED BY <1>2, <1>6, <3>1
  <2>2. v = End(y.at, y.at, TRUE)
    BY <1>1, <1>6, <2>1 DEF StopAt
  <2> QED BY <2>1, <2>2 DEF Agrees
<1>7. CASE x.kind \notin {"Found", "Pending"} /\ bu # {}
  <2> DEFINE l == Least(bu)
  <2>1. y.kind \notin {"Found", "Pending"} /\ bv # {} /\ Least(bv) = l /\ l \in from .. m - 1
    BY <1>2, <1>7
  <2>2. u = at_line_break(c, l, ~IsCheckSum(is_c, f))
    BY <1>1, <1>7, Zenon DEF StopAt, IsCheckSum, l
  <2>3. v = at_line_break(d, l, ~IsCheckSum(is_d, g))
    BY <1>1, <2>1, Zenon DEF StopAt, IsCheckSum, l
  <2> HIDE DEF l
  <2>4. IsCheckSum(is_c, f) <=> IsCheckSum(is_d, g)
    BY <1>3, <1>7
  <2>5. l \in 1 .. m - 1
    BY <1>4, <2>1 DEF Shared
  <2>6. v = u
    <3> DEFINE p == ~IsCheckSum(is_c, f)
               q == ~IsCheckSum(is_d, g)
    <3>1. p \in BOOLEAN /\ q \in BOOLEAN /\ (p <=> q)
      BY <2>4
    <3>2. u = at_line_break(c, l, p) /\ v = at_line_break(d, l, q)
      BY <2>2, <2>3
    <3> HIDE DEF p, q
    <3>3. at_line_break(d, l, q) = at_line_break(c, l, p)
      BY <1>4, <2>5, <3>1, LineBreakSame
    <3> QED BY <3>2, <3>3
  <2> QED BY <2>6 DEF Agrees
<1>8. CASE x.kind \notin {"Found", "Pending"} /\ bu = {}
  <2>1. u = tu
    BY <1>1, <1>8, Zenon DEF StopAt, AtField, IsCheckSum, tu
  <2>2. CASE cv = cu
    <3>1. y.kind \notin {"Found", "Pending"} /\ bv = {}
      BY <1>2, <1>8, <2>2
    <3>2. v = tv
      BY <1>1, <3>1, Zenon DEF StopAt, AtField, IsCheckSum, tv
    <3>3. Agrees(a, c, u, v)
      BY <1>3, <1>8, <2>1, <3>2
    <3> QED BY <3>3
  <2>3. CASE WaitsNext(a, c, tu)
    BY <2>1, <2>3 DEF Agrees
  <2> QED BY <1>3, <1>8, <2>2, <2>3
<1> QED BY <1>5, <1>6, <1>7, <1>8

\* A start is found only at an "8" that "=" follows.
LEMMA StartHasEquals ==
  ASSUME NEW b \in Seq(Byte), NEW from \in Nat, NEW to \in Nat, to <= Len(b), NEW s,
         NEW at_end \in BOOLEAN, find_start(b, from, to, s, at_end).kind = "Found"
  PROVE  \E i \in from .. to - 1 : i + 1 < Len(b) /\ At(b, i + 1) = EQUALS
<1> DEFINE x == find_start(b, from, to, s, at_end)
<1>1. SearchIs(b, from, to, s, at_end, x)
  BY FindStartIs
<1> HIDE DEF x
<1>2. x.kind = "Found"
  BY DEF x
<1>3. PICK i \in from .. to - 1 : FoundFirst(b, from, s, at_end, x, i)
  <2>1. x # [kind |-> "NotFound"] /\ x.kind # "Pending"
    BY <1>2
  <2> QED BY <1>1, <2>1, Zenon DEF SearchIs
<1> DEFINE r == Slice(b, i, Len(b))
<1>4. check(r, s).kind = "Start"
  BY <1>3 DEF FoundFirst
<1>5. r \in Seq(Byte) /\ Len(r) = Len(b) - i /\ \A k \in 1 .. Len(b) - i : r[k] = b[i + k]
  <2>1. i \in Nat /\ Len(b) \in Nat /\ i <= Len(b) /\ Len(b) <= Len(b)
    OBVIOUS
  <2> QED BY <2>1, SliceProperties, ZenonT(40)
<1> HIDE DEF r
<1>6. MatchesPrefix(r, 0, Lesser(Len(r), PREFIX_LEN)) /\ Len(r) >= PREFIX_LEN
  <2>1. NotStart.kind # "Start" /\ Pending.kind # "Start"
    BY DEF NotStart, Pending
  <2> DEFINE p == MatchesPrefix(r, 0, Lesser(Len(r), PREFIX_LEN))
  <2>2. check(r, s) = IF ~p THEN NotStart ELSE IF Len(r) < PREFIX_LEN THEN Pending
                      ELSE CheckValue(r, RunEnd(r, PREFIX_LEN, BeginStringByte), s)
    BY DEF check
  <2> HIDE DEF p
  <2>3. p /\ ~(Len(r) < PREFIX_LEN)
    BY <1>4, <2>1, <2>2
  <2>4. Len(r) >= PREFIX_LEN
    BY <1>5, <2>3 DEF PREFIX_LEN
  <2> QED BY <2>3, <2>4 DEF p
<1>7. Len(r) >= 2 /\ r[2] = EQUALS
  BY <1>5, <1>6, SMTT(30) DEF MatchesPrefix, Lesser, PREFIX_LEN, BEGIN_STRING_PREFIX, EQUALS
<1>8. i + 1 < Len(b) /\ r[2] = b[i + 2]
  BY <1>5, <1>7
<1>9. At(b, i + 1) = EQUALS
  BY <1>7, <1>8 DEF At
<1> QED BY <1>8, <1>9

\* Where there is nothing to search nothing is found.
LEMMA FindNothing ==
  ASSUME NEW b, NEW from \in Nat, NEW to \in Nat, to <= from, NEW s, NEW at_end \in BOOLEAN
  PROVE  find_start(b, from, to, s, at_end).kind = "NotFound"
<1> DEFINE S == {i \in from .. to - 1 : /\ At(b, i) = 56
                                        /\ i > 0 => At(b, i - 1) \notin Digit}
           h == [at \in S |-> check(Slice(b, at, Len(b)), s)]
           D == {at \in DOMAIN h : \/ h[at].kind = "Start"
                                   \/ h[at].kind = "Pending" /\ ~at_end}
           x == find_start(b, from, to, s, at_end)
<1>1. D = {}
  <2>1. S = {}
    OBVIOUS
  <2>2. DOMAIN h = S
    OBVIOUS
  <2> QED BY <2>1, <2>2
<1>2. x = IF D = {} THEN [kind |-> "NotFound"]
          ELSE IF h[Least(D)].kind = "Pending" THEN [kind |-> "Pending", at |-> Least(D)]
          ELSE [kind |-> "Found", at |-> Least(D), separator |-> h[Least(D)].separator]
  BY Zenon DEF find_start, FirstDecided
<1> HIDE DEF D, h, x
<1>3. x.kind = "NotFound"
  BY <1>1, <1>2
<1> QED BY <1>3 DEF x

\* Nothing is searched of a value that is not checked.
LEMMA SearchNothing ==
  ASSUME NEW a \in Seq(Byte), NEW c, NEW is_c, NEW f, NEW from \in Nat, NEW to \in Nat,
         to <= from, NEW s
  PROVE  SearchField(a, c, is_c, f, from, to, s, FALSE) = AtField(a, c, is_c, f, FALSE)
<1> DEFINE bu == Positions(c, from, to, LF)
           x == StartIn(a, c, from, to, s, FALSE)
<1>1. bu = {}
  BY DEF Positions
<1>2. from .. to - 1 = {}
  OBVIOUS
<1>3. x = find_start(a, from, to, s, FALSE)
  BY <1>1 DEF SearchEnd, StartIn
<1>4. SearchField(a, c, is_c, f, from, to, s, FALSE) = StopAt(a, c, is_c, f, x, bu, FALSE)
  BY SearchFieldIs, Zenon
<1>5. x.kind = "NotFound"
  BY <1>3, FindNothing
<1> HIDE DEF x, bu
<1>6. x.kind \notin {"Pending", "Found"}
  BY <1>5
<1> QED BY <1>1, <1>4, <1>6, Zenon DEF StopAt, AtField, IsCheckSum

\* A value that ends in what c and d share ends there in both.
LEMMA ValueEndSame ==
  ASSUME NEW c, NEW d, NEW m, Shared(c, d, m), NEW i \in Nat, i <= m,
         NEW len \in Nat \cup {None}, NEW separator,
         len # None => i + len < Len(c), len # None /\ m < Len(c) => i + len # m
  PROVE  /\ ValueEnd(c, i, len, separator) < m =>
              ValueEnd(d, i, len, separator) = ValueEnd(c, i, len, separator)
         /\ ValueEnd(c, i, len, separator) >= m => ValueEnd(d, i, len, separator) >= m
<1> DEFINE e == ValueEnd(c, i, len, separator)
           g == ValueEnd(d, i, len, separator)
           pc == ByLength(c, i, len, separator)
           pd == ByLength(d, i, len, separator)
<1>1. /\ c \in Seq(Byte) /\ d \in Seq(Byte) /\ Len(c) \in Nat /\ Len(d) \in Nat /\ m \in Nat
      /\ m <= Len(c) /\ m <= Len(d) /\ i <= Len(c) /\ i <= Len(d)
      /\ \A k \in 0 .. m - 1 : At(c, k) = At(d, k)
      /\ m < Len(c) => m = Len(c) - 1 /\ m = Len(d)
  BY DEF Shared
<1>2. /\ pc => e = i + len
      /\ ~pc => /\ e \in i .. Len(c) /\ \A k \in i .. e - 1 : At(c, k) # separator
                /\ e < Len(c) => At(c, e) = separator
  BY <1>1, ValueEndIs DEF EndsValue
<1>3. /\ pd => g = i + len
      /\ ~pd => /\ g \in i .. Len(d) /\ \A k \in i .. g - 1 : At(d, k) # separator
                /\ g < Len(d) => At(d, g) = separator
  BY <1>1, ValueEndIs DEF EndsValue
<1>4. pc <=> pd /\ i + len < m
  <2>1. ASSUME pc PROVE pd /\ i + len < m
    <3>1. len # None /\ i + len < Len(c) /\ At(c, i + len) = separator
      BY <2>1 DEF ByLength
    <3>2. len \in Nat /\ i + len < m
      BY <1>1, <3>1
    <3> QED BY <1>1, <3>1, <3>2 DEF ByLength
  <2>2. ASSUME pd, i + len < m PROVE pc
    <3>1. len # None /\ At(d, i + len) = separator
      BY <2>2 DEF ByLength
    <3>2. len \in Nat
      BY <3>1
    <3> QED BY <1>1, <2>2, <3>1, <3>2 DEF ByLength
  <2> QED BY <2>1, <2>2
<1>5. pd => pc
  <2> SUFFICES ASSUME pd PROVE i + len < m
    BY <1>4
  <2>1. len # None /\ i + len < Len(d)
    BY DEF ByLength
  <2>2. len \in Nat /\ i + len < Len(c)
    BY <2>1
  <2> QED BY <1>1, <2>1, <2>2
<1> HIDE DEF e, g, pc, pd
<1>6. CASE pc
  BY <1>2, <1>3, <1>4, <1>6 DEF e, g
<1>7. CASE ~pc
  <2>1. ~pd
    BY <1>5, <1>7
  <2>2. /\ e \in i .. Len(c) /\ \A k \in i .. e - 1 : At(c, k) # separator
        /\ e < Len(c) => At(c, e) = separator
    BY <1>2, <1>7
  <2>3. /\ g \in i .. Len(d) /\ \A k \in i .. g - 1 : At(d, k) # separator
        /\ g < Len(d) => At(d, g) = separator
    BY <1>3, <2>1
  <2>4. ASSUME g < m PROVE e <= g
    <3>1. At(c, g) = separator /\ g \in Nat /\ i <= g
      BY <1>1, <2>3, <2>4
    <3> QED BY <1>1, <2>2, <3>1
  <2>5. ASSUME e < m PROVE g <= e
    <3>1. At(d, e) = separator /\ e \in Nat /\ i <= e
      BY <1>1, <2>2, <2>5
    <3> QED BY <1>1, <2>3, <3>1
  <2>6. e \in Int /\ g \in Int
    BY <2>2, <2>3
  <2>7. (e < m => g = e) /\ (e >= m => g >= m)
    BY <1>1, <2>4, <2>5, <2>6
  <2> QED BY <2>7 DEF e, g
<1> QED BY <1>6, <1>7

\* What a turn waits for, and how far it checks the field otherwise.
OpenValue(bytes, capped, is_field, field, data_len, at_end) ==
  /\ is_field /\ data_len # None /\ ~CappedFinal(bytes, at_end)
  /\ field.value_start + data_len >= Len(capped)

CheckedEnd(capped, is_field, field, data_len) ==
  IF ~is_field THEN Len(capped)
  ELSE IF data_len = field.value_end - field.value_start THEN field.value_start
  ELSE field.value_end

First(pos) == IF pos = 0 THEN 1 ELSE pos

\* A turn waits for a data value, or searches what it checks of the field.
LEMMA StopAtFieldIs ==
  ASSUME NEW bytes, NEW capped, NEW is_field, NEW field, NEW pos, NEW data_len, NEW s,
         NEW at_end
  PROVE  StopAtField(bytes, capped, is_field, field, pos, data_len, s, at_end)
           = IF OpenValue(bytes, capped, is_field, field, data_len, at_end) THEN Waiting
             ELSE SearchField(bytes, capped, is_field, field, First(pos),
                              CheckedEnd(capped, is_field, field, data_len), s, at_end)
  BY Zenon DEF StopAtField, OpenValue, CheckedEnd, First

TurnsAgree(a, b, c, d, is_c, f, is_d, g, pos, len, s) ==
  Agrees(a, c, StopAtField(a, c, is_c, f, pos, len, s, FALSE),
         StopAtField(b, d, is_d, g, pos, len, s, TRUE))

\* Two fields at one place are checked alike, as SearchFieldSame compares them.
LEMMA FieldSame ==
  ASSUME NEW a, NEW b, NEW c, NEW d, NEW m, Cut(a, b, c, d, m), NEW s \in Byte \cup {None},
         NEW pos \in Nat, NEW len \in Nat \cup {None},
         NEW is_c, NEW f, NEW is_d, NEW g,
         NEW cu \in Nat, cu = CheckedEnd(c, is_c, f, len), cu <= Len(c),
         NEW cv \in Nat, cv = CheckedEnd(d, is_d, g, len), cv <= Len(d),
         cv >= m \/ cv = cu,
         ChecksAlike(c, First(pos), cu, is_c, f, is_d, g),
         EndsAgree(a, b, c, d, is_c, f, is_d, g), cv = cu \/ EndWaits(a, c, is_c, f)
  PROVE  TurnsAgree(a, b, c, d, is_c, f, is_d, g, pos, len, s)
<1> DEFINE u == SearchField(a, c, is_c, f, First(pos), cu, s, FALSE)
           v == SearchField(b, d, is_d, g, First(pos), cv, s, TRUE)
           x == StopAtField(a, c, is_c, f, pos, len, s, FALSE)
           y == StopAtField(b, d, is_d, g, pos, len, s, TRUE)
<1>1. First(pos) \in Nat \ {0}
  BY DEF First
<1>2. Agrees(a, c, u, v)
  <2>1. SearchesAgree(a, b, c, d, is_c, f, is_d, g, First(pos), cu, cv, s)
    BY <1>1, SearchFieldSame
  <2> QED BY <2>1 DEF SearchesAgree
<1>3. x = Waiting \/ x = u
  BY StopAtFieldIs, Zenon
<1>4. y = v
  <2>1. CappedFinal(b, TRUE)
    BY DEF Cut
  <2>2. ~OpenValue(b, d, is_d, g, len, TRUE)
    BY <2>1 DEF OpenValue
  <2> QED BY <2>2, StopAtFieldIs, Zenon
<1> HIDE DEF u, v, x, y
<1>5. Agrees(a, c, x, y)
  BY <1>2, <1>3, <1>4, Zenon DEF Agrees, WaitsNext
<1> QED BY <1>5 DEF x, y, TurnsAgree

\* The turn of a walk of capped, what a message can hold of bytes, at pos.
TurnOf(bytes, capped, pos, data_len, separator, s, at_end) ==
  StopAtField(bytes, capped, TagEnds(capped, pos, separator) # {},
              next_field(capped, pos, data_len, separator), pos, data_len, s, at_end)

\* What is checked of a field is in capped.
LEMMA CheckedEndIs ==
  ASSUME NEW c \in Seq(Byte), NEW pos \in Nat, NEW len \in Nat \cup {None},
         NEW separator \in Byte
  PROVE  LET is_c == TagEnds(c, pos, separator) # {}
             f == next_field(c, pos, len, separator)
         IN  /\ CheckedEnd(c, is_c, f, len) \in Nat
             /\ CheckedEnd(c, is_c, f, len) <= Len(c)
             /\ is_c => f.value_end \in Nat /\ f.value_end <= Len(c)
<1> DEFINE is_c == TagEnds(c, pos, separator) # {}
           f == next_field(c, pos, len, separator)
<1>1. is_c => /\ f.value_start \in Nat /\ f.value_end \in Nat
              /\ f.value_start <= f.value_end /\ f.value_end <= Len(c)
  BY NextField DEF FieldType
<1>2. Len(c) \in Nat
  OBVIOUS
<1> HIDE DEF is_c, f
<1>3. /\ CheckedEnd(c, is_c, f, len) \in Nat
      /\ CheckedEnd(c, is_c, f, len) <= Len(c)
      /\ is_c => f.value_end \in Nat /\ f.value_end <= Len(c)
  BY <1>1, <1>2 DEF CheckedEnd
<1> QED BY <1>3 DEF is_c, f

\* At a message's cap both read the same.
LEMMA FinalTurn ==
  ASSUME NEW a, NEW b, NEW c, NEW d, NEW m, Cut(a, b, c, d, m), CappedFinal(a, FALSE),
         NEW separator \in Byte, NEW s \in Byte \cup {None},
         NEW pos \in Nat, NEW len \in Nat \cup {None}
  PROVE  Agrees(a, c, TurnOf(a, c, pos, len, separator, s, FALSE),
                TurnOf(b, d, pos, len, separator, s, TRUE))
<1> DEFINE is_c == TagEnds(c, pos, separator) # {}
           f == next_field(c, pos, len, separator)
           cu == CheckedEnd(c, is_c, f, len)
           u == AtField(a, c, is_c, f, FALSE)
           v == AtField(b, c, is_c, f, TRUE)
<1>1. /\ a \in Seq(Byte) /\ b \in Seq(Byte) /\ c \in Seq(Byte) /\ Len(c) <= Len(a)
      /\ Len(a) \in Nat /\ Len(c) \in Nat /\ d = c /\ m = Len(c) /\ CappedFinal(b, TRUE)
      /\ Begins(a, b)
  BY CutFacts, Zenon
<1>2. cu \in Nat /\ cu <= Len(c) /\ (is_c => f.value_end \in Nat /\ f.value_end <= Len(c))
  BY <1>1, CheckedEndIs
<1>3. is_c \in BOOLEAN
  OBVIOUS
<1> HIDE DEF is_c, f
<1>4. u = v \/ Same(u, v)
  <2>1. CASE ~is_c \/ f.value_end = Len(c)
    BY <1>1, <2>1, Zenon DEF AtField
  <2>2. CASE is_c /\ f.value_end # Len(c) /\ IsCheckSum(is_c, f)
    <3>1. f.value_end + 1 \in 0 .. Len(a)
      BY <1>1, <1>2, <2>2
    <3>2. u = after_message(a, f.value_end + 1, FALSE)
      BY <2>2 DEF AtField
    <3>3. v = after_message(b, f.value_end + 1, TRUE)
      BY <2>2 DEF AtField
    <3> HIDE DEF u, v
    <3> QED BY <1>1, <3>1, <3>2, <3>3, AfterMessageSame
  <2>3. CASE is_c /\ f.value_end # Len(c) /\ ~IsCheckSum(is_c, f)
    BY <2>3, Zenon DEF AtField
  <2> QED BY <2>1, <2>2, <2>3
<1> HIDE DEF u, v
<1>5. Agrees(a, c, u, v)
  BY <1>4 DEF Same, Agrees, WaitsNext
<1>6. TurnsAgree(a, b, c, c, is_c, f, is_c, f, pos, len, s)
  <2>1. Cut(a, b, c, c, m)
    BY <1>1
  <2>2. EndsAgree(a, b, c, c, is_c, f, is_c, f)
    BY <1>5 DEF u, v, EndsAgree
  <2> HIDE DEF cu
  <2>3. cu = CheckedEnd(c, is_c, f, len)
    BY DEF cu
  <2>4. ChecksAlike(c, First(pos), cu, is_c, f, is_c, f)
    BY DEF ChecksAlike
  <2> QED BY <1>2, <1>3, <2>1, <2>2, <2>3, <2>4, FieldSame
<1> QED BY <1>1, <1>6 DEF TurnOf, TurnsAgree, is_c, f

\* The length of the value at pos, if the field before it states one.
Stated(bytes, separator, pos, len) == len # None => StatesLength(bytes, separator, pos, len)

\* c and d are what a message can hold of a, and of b, of which nothing depends
\* on where it is split.
Split(a, b, c, d, m, separator) ==
  /\ Cut(a, b, c, d, m) /\ Begins(c, b) /\ Begins(d, b) /\ Len(d) <= MAX_MESSAGE_LEN
  /\ ~DependsOnSplit(b, separator)

WalksAgree(a, b, c, d, pos, len, separator, s) ==
  Agrees(a, c, TurnOf(a, c, pos, len, separator, s, FALSE),
         TurnOf(b, d, pos, len, separator, s, TRUE))

\* What a Split says of a text that is not at its cap.
Apart(a, b, c, d, m) ==
  /\ a \in Seq(Byte) /\ b \in Seq(Byte) /\ c \in Seq(Byte) /\ d \in Seq(Byte)
  /\ Len(b) \in Nat /\ Len(c) \in Nat /\ Len(d) \in Nat /\ m \in Nat /\ c = a
  /\ m <= Len(c) /\ m <= Len(d) /\ Len(d) <= MAX_MESSAGE_LEN /\ Len(d) <= Len(b)
  /\ \A k \in 0 .. m - 1 : At(c, k) = At(d, k)
  /\ \A k \in 0 .. Len(c) - 1 : At(c, k) = At(b, k)
  /\ \A k \in 0 .. Len(d) - 1 : At(d, k) = At(b, k)
  /\ m < Len(c) => /\ m = Len(c) - 1 /\ m = Len(d) /\ m = Len(b) - 1
                   /\ At(c, m) = CR /\ At(b, m) = CR /\ b = a

LEMMA SplitFacts ==
  ASSUME NEW a, NEW b, NEW c, NEW d, NEW m, NEW separator, Split(a, b, c, d, m, separator),
         ~CappedFinal(a, FALSE)
  PROVE  Apart(a, b, c, d, m)
<1>1. /\ a \in Seq(Byte) /\ b \in Seq(Byte) /\ c \in Seq(Byte) /\ d \in Seq(Byte)
      /\ Len(c) \in Nat /\ m \in Nat /\ m <= Len(c) /\ m <= Len(d)
      /\ \A k \in 0 .. m - 1 : At(c, k) = At(d, k)
      /\ m < Len(c) => m = Len(c) - 1 /\ At(c, m) = CR
  <2>1. Shared(c, d, m) /\ a \in Seq(Byte) /\ b \in Seq(Byte)
    BY Zenon DEF Split, Cut
  <2>2. c \in Seq(Byte) /\ d \in Seq(Byte) /\ m \in 1 .. Len(c) /\ m <= Len(d)
    BY <2>1, Zenon DEF Shared
  <2>3. /\ \A k \in 0 .. m - 1 : At(c, k) = At(d, k)
        /\ m < Len(c) => m = Len(c) - 1 /\ At(c, m) = CR
    BY <2>1, Zenon DEF Shared
  <2>4. Len(c) \in Nat /\ m \in Nat /\ m <= Len(c)
    BY <2>2
  <2> QED BY <2>1, <2>2, <2>3, <2>4, Zenon
<1>2. c = a /\ (m < Len(c) => m = Len(d) /\ b = a)
  BY DEF Split, Cut, Shared
<1>3. /\ \A k \in 0 .. Len(c) - 1 : At(c, k) = At(b, k)
      /\ \A k \in 0 .. Len(d) - 1 : At(d, k) = At(b, k)
      /\ Len(d) <= Len(b) /\ Len(d) <= MAX_MESSAGE_LEN
  <2>1. Begins(c, b) /\ Begins(d, b) /\ Len(d) <= MAX_MESSAGE_LEN
    BY DEF Split
  <2>2. /\ Len(c) <= Len(b) /\ \A k \in 1 .. Len(c) : c[k] = b[k]
        /\ Len(d) <= Len(b) /\ \A k \in 1 .. Len(d) : d[k] = b[k]
    BY <2>1, Zenon DEF Begins
  <2>3. ASSUME NEW k \in 0 .. Len(c) - 1 PROVE At(c, k) = At(b, k)
    <3>1. k + 1 \in 1 .. Len(c)
      BY <1>1
    <3> QED BY <2>2, <3>1 DEF At
  <2>4. ASSUME NEW k \in 0 .. Len(d) - 1 PROVE At(d, k) = At(b, k)
    <3>1. k + 1 \in 1 .. Len(d)
      BY <1>1
    <3> QED BY <2>2, <3>1 DEF At
  <2> QED BY <2>1, <2>2, <2>3, <2>4
<1>4. Len(b) \in Nat /\ Len(d) \in Nat
  BY <1>1
<1>5. m < Len(c) => m = Len(b) - 1 /\ At(b, m) = CR
  BY <1>1, <1>2
<1> QED BY <1>1, <1>2, <1>3, <1>4, <1>5 DEF Apart

\* Text with a line break in it is no tag.
LEMMA TagWithBreak ==
  ASSUME NEW d \in Seq(Byte), NEW pos \in Nat, NEW t \in Nat, t <= Len(d),
         NEW k \in pos .. t - 1, At(d, k) = LF
  PROVE  parse_u32(Slice(d, pos, t)) = None
<1>1. ~AllDigits(Slice(d, pos, t))
  <2>1. k \in pos .. t - 1 /\ pos <= t
    OBVIOUS
  <2>2. At(d, k) \notin Digit
    BY DEF LF, Digit
  <2> QED BY <2>1, <2>2, SliceDigits
<1> QED BY <1>1 DEF parse_u32

\* A text that is no field, with a line break in it, ends at none of the
\* separators that come after it in d.
LEMMA TextChecked ==
  ASSUME NEW a, NEW b, NEW c, NEW d, NEW m, NEW separator \in Byte,
         Split(a, b, c, d, m, separator),
         ~CappedFinal(a, FALSE), NEW pos \in Nat, NEW len \in Nat \cup {None},
         Stated(b, separator, pos, len), TagEnds(c, pos, separator) = {},
         NEW k \in pos .. Len(c) - 1, At(c, k) = LF
  PROVE  LET is_d == TagEnds(d, pos, separator) # {}
             g == next_field(d, pos, len, separator)
         IN  CheckedEnd(d, is_d, g, len) >= m /\ ~IsCheckSum(is_d, g)
<1> DEFINE is_d == TagEnds(d, pos, separator) # {}
           g == next_field(d, pos, len, separator)
           t == Least(TagEnds(d, pos, separator))
<1>1. /\ b \in Seq(Byte) /\ c \in Seq(Byte) /\ d \in Seq(Byte)
      /\ Len(b) \in Nat /\ Len(c) \in Nat /\ Len(d) \in Nat /\ m \in Nat
      /\ m <= Len(c) /\ m <= Len(d) /\ Len(d) <= MAX_MESSAGE_LEN /\ Len(d) <= Len(b)
      /\ \A i \in 0 .. m - 1 : At(c, i) = At(d, i)
      /\ \A i \in 0 .. Len(d) - 1 : At(d, i) = At(b, i)
      /\ m < Len(c) => m = Len(c) - 1 /\ At(c, m) = CR
  <2>1. Apart(a, b, c, d, m)
    BY SplitFacts
  <2> QED BY <2>1, Zenon DEF Apart
<1>2. k \in pos .. m - 1 /\ At(d, k) = LF
  BY <1>1 DEF LF, CR
<1>3. ASSUME NEW i \in pos .. m - 1 PROVE At(d, i) \notin {EQUALS, separator}
  <2>1. i \in pos .. Len(c) - 1 /\ At(c, i) = At(d, i)
    BY <1>1
  <2> QED BY <2>1 DEF TagEnds
<1>4. CASE ~is_d
  BY <1>1, <1>4 DEF CheckedEnd, IsCheckSum
<1>5. CASE is_d
  <2>1. /\ t \in pos .. Len(d) - 1 /\ At(d, t) \in {EQUALS, separator}
        /\ \A i \in pos .. t - 1 : At(d, i) \notin {EQUALS, separator}
    BY <1>1, <1>5, TagEndIs
  <2>2. t \in Nat /\ t >= m /\ k \in pos .. t - 1
    BY <1>1, <1>2, <1>3, <2>1
  <2>3. parse_u32(Slice(d, pos, t)) = None
    BY <1>1, <1>2, <2>1, <2>2, TagWithBreak
  <2>4. CASE At(d, t) = EQUALS
    <3>1. /\ g.tag = MALFORMED /\ g.value_start = t + 1
          /\ g.value_end = ValueEnd(d, t + 1, len, separator)
      BY <2>3, <2>4, NextFieldIs
    <3>2. EndsValue(d, t + 1, len, separator, g.value_end)
      <4>1. t + 1 \in Nat /\ t + 1 <= Len(d)
        BY <1>1, <2>1, <2>2
      <4> HIDE DEF t, g
      <4>2. EndsValue(d, t + 1, len, separator, ValueEnd(d, t + 1, len, separator))
        BY <1>1, <4>1, ValueEndIs
      <4> QED BY <3>1, <4>2
    <3>3. g.value_end \in Nat /\ g.value_end >= t + 1
      BY <1>1, <2>2, <3>2, SMTT(30) DEF EndsValue, ByLength, None
    <3>4. CheckedEnd(d, is_d, g, len) \in {g.value_start, g.value_end}
      BY <1>5 DEF CheckedEnd
    <3>5. ~IsCheckSum(is_d, g)
      BY <3>1 DEF IsCheckSum, MALFORMED, CHECKSUM
    <3>6. CheckedEnd(d, is_d, g, len) >= m
      <4> DEFINE x == CheckedEnd(d, is_d, g, len)
      <4> HIDE DEF g, is_d, t, x
      <4>1. x \in {g.value_start, g.value_end}
        BY <3>4 DEF x
      <4>2. x >= m
        <5>1. m \in Nat /\ t \in Nat /\ t >= m
          BY <1>1, <2>2
        <5>2. g.value_start >= m
          BY <3>1, <5>1
        <5>3. g.value_end >= m
          BY <5>1, <3>3
        <5> QED BY <4>1, <5>2, <5>3
      <4> QED BY <4>2 DEF x
    <3> QED BY <3>5, <3>6
  <2>5. CASE At(d, t) # EQUALS
    <3>1. g = Field(MALFORMED, pos, t)
      BY <2>5, NextFieldIs
    <3>2. g.tag = MALFORMED /\ g.value_start = pos /\ g.value_end = t
      BY <3>1 DEF Field
    <3>3. len # t - pos
      <4>1. SUFFICES ASSUME len = t - pos PROVE FALSE
        OBVIOUS
      <4>2. len # None
        BY <2>1, <2>2, <4>1 DEF None
      <4>3. StatesLength(b, separator, pos, t - pos)
        BY <4>1, <4>2 DEF Stated
      <4>4. NoDelimiter(b, separator, pos, t)
        BY <1>1, <2>1, <2>2 DEF NoDelimiter
      <4>5. At(b, t) = separator /\ At(b, k) = LF
        BY <1>1, <1>2, <2>1, <2>2, <2>5
      <4>6. t \in 0 .. Lesser(Len(b), MAX_MESSAGE_LEN) - 1 /\ pos \in 0 .. t
        BY <1>1, <2>1, <2>2, Limits DEF Lesser
      <4>7. LengthOfText(b, separator)
        BY <2>2, <4>3, <4>4, <4>5, <4>6 DEF LengthOfText
      <4> QED BY <4>7 DEF Split, DependsOnSplit
    <3>4. CheckedEnd(d, is_d, g, len) = t
      BY <1>5, <3>2, <3>3 DEF CheckedEnd
    <3>5. ~IsCheckSum(is_d, g)
      BY <3>2 DEF IsCheckSum, MALFORMED, CHECKSUM
    <3> QED BY <2>2, <3>4, <3>5
  <2> QED BY <2>4, <2>5
<1> QED BY <1>4, <1>5

\* A turn at text that is no field.
LEMMA TextTurn ==
  ASSUME NEW a, NEW b, NEW c, NEW d, NEW m, NEW separator \in Byte,
         Split(a, b, c, d, m, separator),
         NEW s \in Byte \cup {None}, ~CappedFinal(a, FALSE), NEW pos \in Nat,
         NEW len \in Nat \cup {None},
         Stated(b, separator, pos, len), TagEnds(c, pos, separator) = {}
  PROVE  WalksAgree(a, b, c, d, pos, len, separator, s)
<1> DEFINE is_c == TagEnds(c, pos, separator) # {}
           f == next_field(c, pos, len, separator)
           is_d == TagEnds(d, pos, separator) # {}
           g == next_field(d, pos, len, separator)
<1>1. /\ a \in Seq(Byte) /\ c \in Seq(Byte) /\ d \in Seq(Byte) /\ Len(c) \in Nat /\ c = a
  BY SplitFacts DEF Apart
<1>2. Cut(a, b, c, d, m)
  BY DEF Split
<1>3. First(pos) \in Nat \ {0} /\ pos <= First(pos)
  BY DEF First
<1>4. EndWaits(a, c, is_c, f) /\ AtField(a, c, is_c, f, FALSE) = Waiting
  BY DEF EndWaits, WaitsNext, AtField
<1>5. CASE Positions(c, First(pos), Len(c), LF) = {}
  <2>1. TurnOf(a, c, pos, len, separator, s, FALSE)
          = SearchField(a, c, is_c, f, First(pos), Len(c), s, FALSE)
    <3>1. ~OpenValue(a, c, is_c, f, len, FALSE) /\ CheckedEnd(c, is_c, f, len) = Len(c)
      BY DEF OpenValue, CheckedEnd
    <3> HIDE DEF is_c, f
    <3> QED BY <3>1, StopAtFieldIs DEF TurnOf, is_c, f
  <2> DEFINE start == StartIn(a, c, First(pos), Len(c), s, FALSE)
  <2>2. SearchField(a, c, is_c, f, First(pos), Len(c), s, FALSE)
          = StopAt(a, c, is_c, f, start, {}, FALSE)
    BY <1>5, SearchFieldIs
  <2>3. start = find_start(a, First(pos), Len(c), s, FALSE)
    BY <1>5 DEF StartIn, SearchEnd
  <2>4. start.kind # "Found"
    <3>1. SUFFICES ASSUME start.kind = "Found" PROVE FALSE
      OBVIOUS
    <3>2. PICK i \in First(pos) .. Len(c) - 1 : i + 1 < Len(a) /\ At(a, i + 1) = EQUALS
      <4>1. find_start(a, First(pos), Len(c), s, FALSE).kind = "Found"
        BY <2>3, <3>1
      <4> HIDE DEF start
      <4>2. \E i \in First(pos) .. Len(c) - 1 : i + 1 < Len(c) /\ At(c, i + 1) = EQUALS
        <5> DEFINE from == First(pos)
                   to == Len(c)
        <5>1. from \in Nat /\ to \in Nat /\ to <= Len(c) /\ c \in Seq(Byte)
          BY <1>1, <1>3
        <5>2. find_start(c, from, to, s, FALSE).kind = "Found"
          BY <1>1, <4>1
        <5> HIDE DEF from, to
        <5>3. \E i \in from .. to - 1 : i + 1 < Len(c) /\ At(c, i + 1) = EQUALS
          BY <5>1, <5>2, StartHasEquals
        <5> QED BY <5>3 DEF from, to
      <4> QED BY <1>1, <4>2
    <3>3. i + 1 \in TagEnds(c, pos, separator)
      BY <1>1, <1>3, <3>2 DEF TagEnds
    <3> QED BY <3>3
  <2>5. StopAt(a, c, is_c, f, start, {}, FALSE) = Waiting
    <3> HIDE DEF start
    <3> QED BY <2>4 DEF StopAt
  <2> QED BY <2>1, <2>2, <2>5 DEF WalksAgree, Agrees, WaitsNext
<1>6. CASE Positions(c, First(pos), Len(c), LF) # {}
  <2>1. PICK k \in First(pos) .. Len(c) - 1 : At(c, k) = LF
    BY <1>6 DEF Positions
  <2>2. k \in pos .. Len(c) - 1
    BY <1>1, <1>3, <2>1
  <2>3. CheckedEnd(d, is_d, g, len) >= m /\ ~IsCheckSum(is_d, g)
    BY <2>1, <2>2, TextChecked
  <2>4. /\ CheckedEnd(c, is_c, f, len) \in Nat /\ CheckedEnd(c, is_c, f, len) <= Len(c)
    BY <1>1, CheckedEndIs
  <2>5. /\ CheckedEnd(d, is_d, g, len) \in Nat /\ CheckedEnd(d, is_d, g, len) <= Len(d)
    BY <1>1, CheckedEndIs
  <2>6. ChecksAlike(c, First(pos), CheckedEnd(c, is_c, f, len), is_c, f, is_d, g)
    BY <2>3 DEF ChecksAlike, IsCheckSum
  <2>7. EndsAgree(a, b, c, d, is_c, f, is_d, g)
    BY <1>4 DEF EndsAgree, EndWaits, Agrees
  <2> DEFINE cu == CheckedEnd(c, is_c, f, len)
             cv == CheckedEnd(d, is_d, g, len)
  <2>8. TurnsAgree(a, b, c, d, is_c, f, is_d, g, pos, len, s)
    <3> HIDE DEF is_c, f, is_d, g
    <3>1. cu \in Nat /\ cv \in Nat /\ cu <= Len(c) /\ cv <= Len(d) /\ cv >= m
      BY <2>3, <2>4, <2>5
    <3> QED BY <1>2, <1>4, <2>6, <2>7, <3>1, FieldSame
  <2> QED BY <2>8 DEF TurnsAgree, WalksAgree, TurnOf
<1> QED BY <1>5, <1>6

\* The two fields at pos of a turn that is not the last.
Turns(a, b, c, d, m, pos, len, separator, s) ==
  /\ Split(a, b, c, d, m, separator) /\ ~CappedFinal(a, FALSE)
  /\ separator \in Byte /\ s \in Byte \cup {None}
  /\ pos \in Nat /\ pos <= m /\ len \in Nat \cup {None} /\ Stated(b, separator, pos, len)

\* A turn that checks two fields up to cu and cv.
LEMMA FieldTurn ==
  ASSUME NEW a, NEW b, NEW c, NEW d, NEW m, NEW pos, NEW len, NEW separator, NEW s,
         Turns(a, b, c, d, m, pos, len, separator, s),
         NEW is_c, is_c = (TagEnds(c, pos, separator) # {}),
         NEW is_d, is_d = (TagEnds(d, pos, separator) # {}),
         NEW f, f = next_field(c, pos, len, separator),
         NEW g, g = next_field(d, pos, len, separator),
         CheckedEnd(d, is_d, g, len) >= m
           \/ CheckedEnd(d, is_d, g, len) = CheckedEnd(c, is_c, f, len),
         IsCheckSum(is_c, f) <=> IsCheckSum(is_d, g),
         EndsAgree(a, b, c, d, is_c, f, is_d, g),
         CheckedEnd(d, is_d, g, len) = CheckedEnd(c, is_c, f, len)
           \/ EndWaits(a, c, is_c, f)
  PROVE  WalksAgree(a, b, c, d, pos, len, separator, s)
<1> DEFINE cu == CheckedEnd(c, is_c, f, len)
           cv == CheckedEnd(d, is_d, g, len)
<1>1. /\ Cut(a, b, c, d, m) /\ c \in Seq(Byte) /\ d \in Seq(Byte)
      /\ separator \in Byte /\ s \in Byte \cup {None} /\ pos \in Nat /\ len \in Nat \cup {None}
  <2>1. Apart(a, b, c, d, m)
    BY SplitFacts DEF Turns
  <2> QED BY <2>1 DEF Turns, Split, Apart
<1>2. cu \in Nat /\ cu <= Len(c) /\ cv \in Nat /\ cv <= Len(d)
  BY <1>1, CheckedEndIs
<1>3. ChecksAlike(c, First(pos), cu, is_c, f, is_d, g)
  BY DEF ChecksAlike
<1>4. TurnsAgree(a, b, c, d, is_c, f, is_d, g, pos, len, s)
  BY <1>1, <1>2, <1>3, FieldSame
<1> QED BY <1>4 DEF TurnsAgree, WalksAgree, TurnOf

\* The next turn of c comes to where nothing may join.
LEMMA WaitsAt ==
  ASSUME NEW a \in Seq(Byte), ~CappedFinal(a, FALSE), NEW is_c, is_c, NEW f,
         f.value_end \in Nat, f.value_end = Len(a) \/ f.value_end = Len(a) - 1
  PROVE  EndWaits(a, a, is_c, f)
<1> DEFINE x == AtField(a, a, is_c, f, FALSE)
<1>1. CASE f.value_end = Len(a)
  <2>1. x = Waiting
    BY <1>1 DEF AtField
  <2> QED BY <2>1 DEF EndWaits, WaitsNext
<1>2. CASE f.value_end = Len(a) - 1
  <2>1. Len(a) \in Nat /\ f.value_end # Len(a) /\ f.value_end + 1 = Len(a)
    BY <1>2
  <2>2. CASE IsCheckSum(is_c, f)
    <3>1. x = after_message(a, Len(a), FALSE)
      BY <2>1, <2>2 DEF AtField
    <3>2. Slice(a, Len(a), Len(a)) = <<>>
      BY <2>1, ShortSlices
    <3>3. x = Waiting
      BY <3>1, <3>2 DEF after_message
    <3> QED BY <3>3 DEF EndWaits, WaitsNext
  <2>3. CASE ~IsCheckSum(is_c, f)
    <3>1. x = [kind |-> "Walking", after |-> Len(a), data_len |-> pending_data_len(a, f)]
      BY <2>1, <2>3 DEF AtField
    <3>2. x.kind = "Walking" /\ x.after = Len(a)
      <4> HIDE DEF x
      <4> QED BY <3>1
    <3> QED BY <3>2 DEF EndWaits, WaitsNext
  <2> QED BY <2>2, <2>3
<1> QED BY <1>1, <1>2

\* A field whose separator is the CR that d ends before.
LEMMA LastByteTurn ==
  ASSUME NEW a, NEW b, NEW c, NEW d, NEW m, NEW pos, NEW len, NEW separator, NEW s,
         Turns(a, b, c, d, m, pos, len, separator, s),
         TagEnds(c, pos, separator) # {}, Least(TagEnds(c, pos, separator)) >= m
  PROVE  WalksAgree(a, b, c, d, pos, len, separator, s)
<1> DEFINE is_c == TagEnds(c, pos, separator) # {}
           f == next_field(c, pos, len, separator)
           is_d == TagEnds(d, pos, separator) # {}
           g == next_field(d, pos, len, separator)
           t == Least(TagEnds(c, pos, separator))
<1>1. Apart(a, b, c, d, m) /\ Cut(a, b, c, d, m)
  BY SplitFacts DEF Turns, Split
<1>2. /\ c \in Seq(Byte) /\ d \in Seq(Byte) /\ Len(c) \in Nat /\ Len(d) \in Nat /\ m \in Nat
      /\ m <= Len(c) /\ (m < Len(c) => m = Len(c) - 1 /\ m = Len(d) /\ At(c, m) = CR)
      /\ \A k \in 0 .. m - 1 : At(c, k) = At(d, k)
      /\ c = a
  BY <1>1, Zenon DEF Apart
<1>3. /\ pos \in Nat /\ pos <= m /\ len \in Nat \cup {None} /\ separator \in Byte
      /\ s \in Byte \cup {None} /\ ~CappedFinal(a, FALSE)
  BY DEF Turns
<1>4. /\ t \in pos .. Len(c) - 1 /\ At(c, t) \in {EQUALS, separator}
      /\ \A k \in pos .. t - 1 : At(c, k) \notin {EQUALS, separator}
  BY <1>2, <1>3, TagEndIs
<1>5. t = m /\ m = Len(c) - 1 /\ m = Len(d) /\ At(c, t) = CR
  BY <1>2, <1>3, <1>4
<1>6. ~is_d
  <2>1. \A k \in pos .. Len(d) - 1 : At(d, k) \notin {EQUALS, separator}
    BY <1>2, <1>3, <1>4, <1>5, SMTT(30)
  <2> QED BY <2>1 DEF TagEnds
<1>7. At(c, t) # EQUALS
  BY <1>5 DEF CR, EQUALS
<1>8. f = Field(MALFORMED, pos, m)
  BY <1>5, <1>7, NextFieldIs
<1>9. f.tag = MALFORMED /\ f.value_start = pos /\ f.value_end = m
  BY <1>8 DEF Field
<1>10. ~IsCheckSum(is_c, f) /\ ~IsCheckSum(is_d, g)
  BY <1>6, <1>9 DEF IsCheckSum, MALFORMED, CHECKSUM
<1>11. EndWaits(a, c, is_c, f)
  <2>1. f.value_end \in Nat /\ f.value_end = Len(a) - 1 /\ a \in Seq(Byte)
    BY <1>2, <1>5, <1>9
  <2>2. is_c
    OBVIOUS
  <2> HIDE DEF is_c, f
  <2> QED BY <1>2, <1>3, <2>1, <2>2, WaitsAt
<1>12. CASE len = m - pos
  <2>1. ~OpenValue(a, c, is_c, f, len, FALSE)
    <3>1. f.value_start + len < Len(c)
      BY <1>2, <1>3, <1>5, <1>9, <1>12
    <3>2. f.value_start + len \in Int /\ Len(c) \in Int
      BY <1>2, <1>3, <1>9, <1>12
    <3> HIDE DEF f, is_c
    <3>3. ~(f.value_start + len >= Len(c))
      BY <3>1, <3>2
    <3> QED BY <3>3 DEF OpenValue
  <2>2. CheckedEnd(c, is_c, f, len) = pos
    BY <1>9, <1>12 DEF CheckedEnd
  <2> HIDE DEF is_c, f
  <2>3. StopAtField(a, c, is_c, f, pos, len, s, FALSE)
          = SearchField(a, c, is_c, f, First(pos), pos, s, FALSE)
    BY <2>1, <2>2, StopAtFieldIs
  <2>4. First(pos) \in Nat /\ pos <= First(pos)
    BY <1>3 DEF First
  <2>5. SearchField(a, c, is_c, f, First(pos), pos, s, FALSE)
          = AtField(a, c, is_c, f, FALSE)
    <3> DEFINE from == First(pos)
    <3> HIDE DEF from
    <3>1. from \in Nat /\ pos <= from /\ a \in Seq(Byte)
      BY <1>2, <2>4 DEF from
    <3>2. SearchField(a, c, is_c, f, from, pos, s, FALSE) = AtField(a, c, is_c, f, FALSE)
      BY <1>3, <3>1, SearchNothing, Zenon
    <3> QED BY <3>2 DEF from
  <2>6. TurnOf(a, c, pos, len, separator, s, FALSE) = AtField(a, c, is_c, f, FALSE)
    BY <2>3, <2>5, Zenon DEF TurnOf, is_c, f
  <2> QED BY <1>11, <2>6 DEF WalksAgree, Agrees, EndWaits
<1>13. CASE len # m - pos
  <2>1. CheckedEnd(c, is_c, f, len) = m
    BY <1>9, <1>13 DEF CheckedEnd
  <2>2. CheckedEnd(d, is_d, g, len) = m
    BY <1>5, <1>6 DEF CheckedEnd
  <2>3. EndsAgree(a, b, c, d, is_c, f, is_d, g)
    BY <1>11 DEF EndsAgree, EndWaits, Agrees
  <2>4. /\ is_c = (TagEnds(c, pos, separator) # {}) /\ is_d = (TagEnds(d, pos, separator) # {})
        /\ f = next_field(c, pos, len, separator) /\ g = next_field(d, pos, len, separator)
    OBVIOUS
  <2> HIDE DEF is_c, f, is_d, g
  <2> QED BY <1>10, <1>11, <2>1, <2>2, <2>3, <2>4, FieldTurn
<1> QED BY <1>12, <1>13

\* Where the tag of the field at pos ends in both.
LEMMA SameTagEnd ==
  ASSUME NEW a, NEW b, NEW c, NEW d, NEW m, NEW pos, NEW len, NEW separator, NEW s,
         Turns(a, b, c, d, m, pos, len, separator, s),
         TagEnds(c, pos, separator) # {}, Least(TagEnds(c, pos, separator)) < m
  PROVE  LET t == Least(TagEnds(c, pos, separator))
         IN  /\ TagEnds(d, pos, separator) # {} /\ Least(TagEnds(d, pos, separator)) = t
             /\ t \in pos .. m - 1 /\ At(d, t) = At(c, t) /\ t < Len(c) /\ t < Len(d)
             /\ Slice(d, pos, t) = Slice(c, pos, t)
             /\ \A k \in pos .. t - 1 : At(c, k) \notin {EQUALS, separator}
<1> DEFINE t == Least(TagEnds(c, pos, separator))
<1>1. Apart(a, b, c, d, m) /\ Shared(c, d, m)
  BY SplitFacts DEF Turns, Split, Cut
<1>2. /\ c \in Seq(Byte) /\ d \in Seq(Byte) /\ Len(c) \in Nat /\ Len(d) \in Nat /\ m \in Nat
      /\ m <= Len(c) /\ m <= Len(d) /\ \A k \in 0 .. m - 1 : At(c, k) = At(d, k)
  BY <1>1, Zenon DEF Apart
<1>3. pos \in Nat
  BY DEF Turns
<1>4. /\ t \in pos .. Len(c) - 1 /\ At(c, t) \in {EQUALS, separator}
      /\ \A k \in pos .. t - 1 : At(c, k) \notin {EQUALS, separator}
  BY <1>2, <1>3, TagEndIs
<1>5. t \in pos .. m - 1 /\ t \in Nat /\ At(d, t) = At(c, t) /\ t < Len(c) /\ t < Len(d)
  BY <1>2, <1>3, <1>4
<1> HIDE DEF t
<1>6. t \in TagEnds(d, pos, separator)
  BY <1>2, <1>4, <1>5 DEF TagEnds
<1>7. Least(TagEnds(d, pos, separator)) = t
  <2>1. TagEnds(d, pos, separator) \subseteq Nat
    BY <1>3 DEF TagEnds
  <2>2. ASSUME NEW k \in TagEnds(d, pos, separator) PROVE t <= k
    <3>1. k \in pos .. Len(d) - 1 /\ At(d, k) \in {EQUALS, separator}
      BY DEF TagEnds
    <3>2. SUFFICES ASSUME k < t PROVE FALSE
      BY <1>3, <1>5, <3>1
    <3>3. k \in pos .. t - 1 /\ At(c, k) = At(d, k)
      BY <1>2, <1>3, <1>5, <3>1, <3>2
    <3> QED BY <1>4, <3>1, <3>3
  <2> QED BY <1>6, <2>1, <2>2, LeastIs
<1>8. Slice(d, pos, t) = Slice(c, pos, t)
  <2>1. pos <= t /\ t <= m
    BY <1>2, <1>3, <1>5
  <2> QED BY <1>1, <1>3, <1>5, <2>1, SharedSlice
<1> QED BY <1>4, <1>5, <1>6, <1>7, <1>8 DEF t

\* The same field on both sides, that ends before m.
LEMMA SameFieldTurn ==
  ASSUME NEW a, NEW b, NEW c, NEW d, NEW m, NEW pos, NEW len, NEW separator, NEW s,
         Turns(a, b, c, d, m, pos, len, separator, s),
         TagEnds(c, pos, separator) # {}, TagEnds(d, pos, separator) # {},
         NEW f, f = next_field(c, pos, len, separator), f = next_field(d, pos, len, separator),
         f.value_start \in Nat, f.value_end \in Nat, f.value_start <= f.value_end,
         f.value_end < m
  PROVE  WalksAgree(a, b, c, d, pos, len, separator, s)
<1> DEFINE is_c == TagEnds(c, pos, separator) # {}
           is_d == TagEnds(d, pos, separator) # {}
           e == f.value_end
           x == AtField(a, c, is_c, f, FALSE)
           y == AtField(b, d, is_d, f, TRUE)
<1>1. Apart(a, b, c, d, m) /\ Cut(a, b, c, d, m)
  BY SplitFacts DEF Turns, Split
<1>2. /\ c \in Seq(Byte) /\ d \in Seq(Byte) /\ Len(c) \in Nat /\ Len(d) \in Nat /\ m \in Nat
      /\ m <= Len(c) /\ m <= Len(d) /\ a = c /\ b \in Seq(Byte)
  BY <1>1, Zenon DEF Apart
<1>3. CheckedEnd(d, is_d, f, len) = CheckedEnd(c, is_c, f, len)
  BY DEF CheckedEnd
<1>4. IsCheckSum(is_c, f) <=> IsCheckSum(is_d, f)
  BY DEF IsCheckSum
<1>5. e # Len(c) /\ e # Len(d) /\ e + 1 \in 0 .. Len(a)
  BY <1>2
<1>6. Agrees(a, c, x, y)
  <2>1. CASE IsCheckSum(is_c, f)
    <3>1. x = after_message(a, e + 1, FALSE) /\ y = after_message(b, e + 1, TRUE)
      BY <1>4, <1>5, <2>1 DEF AtField
    <3>2. Begins(a, b)
      BY <1>1 DEF Cut
    <3>3. Same(after_message(a, e + 1, FALSE), after_message(b, e + 1, TRUE))
      BY <1>2, <1>5, <3>2, AfterMessageSame
    <3>4. Same(x, y)
      BY <3>1, <3>3
    <3> HIDE DEF x, y
    <3> QED BY <3>4 DEF Same, Agrees, WaitsNext
  <2>2. CASE ~IsCheckSum(is_c, f)
    <3>1. Value(d, f) = Value(c, f)
      <4>1. Shared(c, d, m) /\ f.value_end <= m
        BY <1>1, <1>2 DEF Cut
      <4> QED BY <4>1, SharedSlice DEF Value
    <3>2. pending_data_len(d, f) = pending_data_len(c, f)
      BY <3>1 DEF pending_data_len
    <3>3. /\ x = [kind |-> "Walking", after |-> e + 1, data_len |-> pending_data_len(c, f)]
          /\ y = [kind |-> "Walking", after |-> e + 1, data_len |-> pending_data_len(d, f)]
      BY <1>4, <1>5, <2>2 DEF AtField
    <3>4. y = x
      BY <3>2, <3>3
    <3> QED BY <3>4 DEF Agrees
  <2> QED BY <2>1, <2>2
<1>7. EndsAgree(a, b, c, d, is_c, f, is_d, f)
  BY <1>6 DEF EndsAgree
<1>8. is_c = (TagEnds(c, pos, separator) # {}) /\ is_d = (TagEnds(d, pos, separator) # {})
  OBVIOUS
<1> HIDE DEF is_c, is_d, x, y
<1> QED BY <1>3, <1>4, <1>7, <1>8, FieldTurn

\* A field without "=" whose separator both have.
LEMMA SeparatorTurn ==
  ASSUME NEW a, NEW b, NEW c, NEW d, NEW m, NEW pos, NEW len, NEW separator, NEW s,
         Turns(a, b, c, d, m, pos, len, separator, s),
         TagEnds(c, pos, separator) # {}, Least(TagEnds(c, pos, separator)) < m,
         At(c, Least(TagEnds(c, pos, separator))) # EQUALS
  PROVE  WalksAgree(a, b, c, d, pos, len, separator, s)
<1> DEFINE t == Least(TagEnds(c, pos, separator))
           f == Field(MALFORMED, pos, t)
<1>1. /\ TagEnds(d, pos, separator) # {} /\ Least(TagEnds(d, pos, separator)) = t
      /\ t \in pos .. m - 1 /\ At(d, t) = At(c, t)
  BY SameTagEnd
<1>2. f = next_field(c, pos, len, separator) /\ f = next_field(d, pos, len, separator)
  <2>1. f = next_field(c, pos, len, separator)
    BY NextFieldIs
  <2>2. f = next_field(d, pos, len, separator)
    BY <1>1, NextFieldIs
  <2> QED BY <2>1, <2>2
<1>3. pos \in Nat /\ pos <= m /\ m \in Nat
  <2>1. Apart(a, b, c, d, m)
    BY SplitFacts DEF Turns
  <2> QED BY <2>1 DEF Apart, Turns
<1>4. f.value_start = pos /\ f.value_end = t
  BY DEF Field
<1> HIDE DEF f
<1>5. f.value_start \in Nat /\ f.value_end \in Nat /\ f.value_start <= f.value_end /\ f.value_end < m
  BY <1>1, <1>3, <1>4
<1> QED BY <1>1, <1>2, <1>5, SameFieldTurn

\* A value does not end at its stated length at the CR that ends the log.
LEMMA LengthAtBreak ==
  ASSUME NEW a, NEW b, NEW c, NEW d, NEW m, NEW pos, NEW len, NEW separator, NEW s,
         Turns(a, b, c, d, m, pos, len, separator, s), NEW t \in pos .. m - 1,
         At(c, t) = EQUALS, \A k \in pos .. t - 1 : At(c, k) \notin {EQUALS, separator},
         len # None, m < Len(c)
  PROVE  (t + 1) + len # m
<1>1. SUFFICES ASSUME (t + 1) + len = m PROVE FALSE
  OBVIOUS
<1>2. Apart(a, b, c, d, m)
  BY SplitFacts DEF Turns
<1>3. /\ b \in Seq(Byte) /\ Len(b) \in Nat /\ Len(c) \in Nat /\ m \in Nat /\ m = Len(b) - 1
      /\ At(b, m) = CR /\ \A k \in 0 .. Len(c) - 1 : At(c, k) = At(b, k)
  BY <1>2, Zenon DEF Apart
<1>4. pos \in Nat /\ len \in Nat /\ Stated(b, separator, pos, len)
  BY DEF Turns
<1>5. t \in Nat /\ t + 1 \in 1 .. Len(b) - 1 /\ pos \in 0 .. t /\ (t + 1) - 1 = t
  BY <1>3, <1>4
<1>6. len = (Len(b) - 1) - (t + 1)
  BY <1>1, <1>3, <1>4, <1>5
<1>7. StatesLength(b, separator, pos, (Len(b) - 1) - (t + 1))
  BY <1>4, <1>6 DEF Stated
<1>8. NoDelimiter(b, separator, pos, t) /\ At(b, t) = EQUALS
  BY <1>3, <1>4, <1>5 DEF NoDelimiter
<1>9. LengthUpToBreak(b, separator)
  <2> DEFINE v == t + 1
  <2>1. /\ v \in 1 .. Len(b) - 1 /\ pos \in 0 .. v - 1 /\ v - 1 = t
    BY <1>5
  <2>2. StatesLength(b, separator, pos, Len(b) - 1 - v)
    <3>1. Len(b) - 1 - v = (Len(b) - 1) - (t + 1)
      BY <1>3, <1>5
    <3> QED BY <1>7, <3>1
  <2> HIDE DEF v
  <2> QED BY <1>8, <2>1, <2>2 DEF LengthUpToBreak
<1>10. At(b, Len(b) - 1) = CR
  BY <1>3
<1> QED BY <1>9, <1>10 DEF Turns, Split, DependsOnSplit

\* A field with "=" in what both have.
LEMMA EqualsTurn ==
  ASSUME NEW a, NEW b, NEW c, NEW d, NEW m, NEW pos, NEW len, NEW separator, NEW s,
         Turns(a, b, c, d, m, pos, len, separator, s),
         TagEnds(c, pos, separator) # {}, Least(TagEnds(c, pos, separator)) < m,
         At(c, Least(TagEnds(c, pos, separator))) = EQUALS
  PROVE  WalksAgree(a, b, c, d, pos, len, separator, s)
<1> DEFINE t == Least(TagEnds(c, pos, separator))
           is_c == TagEnds(c, pos, separator) # {}
           is_d == TagEnds(d, pos, separator) # {}
           f == next_field(c, pos, len, separator)
           g == next_field(d, pos, len, separator)
           e == ValueEnd(c, t + 1, len, separator)
           e2 == ValueEnd(d, t + 1, len, separator)
<1>1. /\ is_d /\ Least(TagEnds(d, pos, separator)) = t
      /\ t \in pos .. m - 1 /\ At(d, t) = At(c, t) /\ t < Len(c) /\ t < Len(d)
      /\ Slice(d, pos, t) = Slice(c, pos, t)
      /\ \A k \in pos .. t - 1 : At(c, k) \notin {EQUALS, separator}
  BY SameTagEnd
<1>2. /\ f.value_start = t + 1 /\ f.value_end = e /\ f = Field(f.tag, t + 1, e)
      /\ g.value_start = t + 1 /\ g.value_end = e2 /\ g = Field(f.tag, t + 1, e2)
      /\ g.tag = f.tag
  <2> DEFINE n == parse_u32(Slice(c, pos, t))
             tag == IF n = None THEN MALFORMED ELSE n
  <2>1. /\ f.tag = tag /\ f.value_start = t + 1 /\ f.value_end = e
        /\ f = Field(f.tag, f.value_start, f.value_end)
    BY NextFieldIs
  <2>2. /\ g.tag = tag /\ g.value_start = t + 1 /\ g.value_end = e2
        /\ g = Field(g.tag, g.value_start, g.value_end)
    BY <1>1, NextFieldIs
  <2> HIDE DEF f, g, e, e2, t, tag
  <2> QED BY <2>1, <2>2
<1>3. Apart(a, b, c, d, m) /\ Cut(a, b, c, d, m) /\ Shared(c, d, m)
  BY SplitFacts DEF Turns, Split, Cut
<1>4. /\ c \in Seq(Byte) /\ d \in Seq(Byte) /\ Len(c) \in Nat /\ Len(d) \in Nat /\ m \in Nat
      /\ m <= Len(c) /\ m <= Len(d) /\ a = c
      /\ m < Len(c) => m = Len(c) - 1 /\ m = Len(d)
  BY <1>3, Zenon DEF Apart
<1>5. /\ pos \in Nat /\ pos <= m /\ len \in Nat \cup {None} /\ ~CappedFinal(a, FALSE)
  BY DEF Turns
<1>6. t + 1 \in Nat /\ t + 1 <= m /\ t + 1 <= Len(c) /\ t + 1 <= Len(d)
  BY <1>1, <1>4, <1>5
<1>7. e \in t + 1 .. Len(c) /\ e2 \in t + 1 .. Len(d)
  <2>1. EndsValue(c, t + 1, len, separator, e) /\ EndsValue(d, t + 1, len, separator, e2)
    BY <1>4, <1>5, <1>6, ValueEndIs
  <2> HIDE DEF e, e2, t
  <2> QED BY <1>4, <1>5, <1>6, <2>1 DEF EndsValue, ByLength, None
<1>8. CASE len # None /\ ~((t + 1) + len < Len(c))
  <2>1. OpenValue(a, c, is_c, f, len, FALSE)
    <3>1. f.value_start + len >= Len(c)
      <4>1. (t + 1) + len \in Int
        BY <1>5, <1>6, <1>8
      <4> HIDE DEF f, t
      <4> QED BY <1>2, <1>4, <1>8, <4>1
    <3> HIDE DEF f
    <3> QED BY <1>5, <1>8, <3>1 DEF OpenValue
  <2>2. TurnOf(a, c, pos, len, separator, s, FALSE) = Waiting
    <3> HIDE DEF f, is_c
    <3> QED BY <2>1, StopAtFieldIs DEF TurnOf, f, is_c
  <2> QED BY <2>2 DEF WalksAgree, Agrees, WaitsNext
<1>9. CASE len # None => (t + 1) + len < Len(c)
  <2>1. len # None /\ m < Len(c) => (t + 1) + len # m
    BY <1>1, <1>5, LengthAtBreak
  <2>2. e < m => e2 = e
    BY <1>3, <1>5, <1>6, <1>9, <2>1, ValueEndSame
  <2>3. e >= m => e2 >= m
    BY <1>3, <1>5, <1>6, <1>9, <2>1, ValueEndSame
  <2>4. CASE e < m
    <3>1. f = g
      <4> HIDE DEF f, g, e, e2, t
      <4> QED BY <1>2, <2>2, <2>4
    <3>2. f.value_start \in Nat /\ f.value_end \in Nat /\ f.value_start <= f.value_end
          /\ f.value_end < m
      <4> HIDE DEF f, e, t
      <4> QED BY <1>2, <1>4, <1>6, <1>7, <2>4
    <3>3. f = next_field(c, pos, len, separator) /\ f = next_field(d, pos, len, separator)
      BY <3>1
    <3> HIDE DEF f
    <3> QED BY <1>1, <3>2, <3>3, SameFieldTurn
  <2>5. CASE e >= m
    <3>1. CheckedEnd(c, is_c, f, len) = e
      <4>1. len # e - (t + 1)
        <5> HIDE DEF e, t
        <5> QED BY <1>4, <1>5, <1>6, <1>7, <1>9, <2>1, <2>5 DEF None
      <4>2. len # f.value_end - f.value_start
        <5> HIDE DEF f, e, t
        <5> QED BY <1>2, <4>1
      <4> HIDE DEF f
      <4> QED BY <1>2, <4>2 DEF CheckedEnd
    <3>2. CheckedEnd(d, is_d, g, len) >= m
      <4>1. len # e2 - (t + 1)
        <5> HIDE DEF e, e2, t
        <5> QED BY <1>4, <1>5, <1>6, <1>7, <1>9, <2>1, <2>3, <2>5 DEF None
      <4>2. len # g.value_end - g.value_start
        <5> HIDE DEF g, e2, t
        <5> QED BY <1>2, <4>1
      <4>3. CheckedEnd(d, is_d, g, len) = e2
        <5> HIDE DEF g
        <5> QED BY <1>1, <1>2, <4>2 DEF CheckedEnd
      <4> QED BY <2>3, <2>5, <4>3
    <3>3. EndWaits(a, c, is_c, f)
      <4>1. f.value_end \in Nat /\ (f.value_end = Len(a) \/ f.value_end = Len(a) - 1)
        <5>1. e \in Nat /\ (e = Len(c) \/ e = Len(c) - 1)
          <6> HIDE DEF e, t
          <6> QED BY <1>4, <1>6, <1>7, <2>5
        <5> HIDE DEF f, e, t
        <5> QED BY <1>2, <1>4, <5>1
      <4>2. is_c /\ a \in Seq(Byte)
        BY <1>4
      <4> HIDE DEF f, is_c
      <4> QED BY <1>4, <1>5, <4>1, <4>2, WaitsAt
    <3>4. IsCheckSum(is_c, f) <=> IsCheckSum(is_d, g)
      <4> HIDE DEF f, g
      <4> QED BY <1>1, <1>2 DEF IsCheckSum
    <3>5. EndsAgree(a, b, c, d, is_c, f, is_d, g)
      BY <3>3 DEF EndsAgree, EndWaits, Agrees
    <3>6. /\ is_c = (TagEnds(c, pos, separator) # {}) /\ is_d = (TagEnds(d, pos, separator) # {})
          /\ f = next_field(c, pos, len, separator) /\ g = next_field(d, pos, len, separator)
      OBVIOUS
    <3> HIDE DEF is_c, is_d, f, g
    <3> QED BY <3>2, <3>3, <3>4, <3>5, <3>6, FieldTurn
  <2>6. e < m \/ e >= m
    <3> HIDE DEF e, t
    <3> QED BY <1>4, <1>6, <1>7
  <2> HIDE DEF e
  <2> QED BY <2>4, <2>5, <2>6
<1>10. (len # None /\ ~((t + 1) + len < Len(c))) \/ (len # None => (t + 1) + len < Len(c))
  OBVIOUS
<1> HIDE DEF t
<1> QED BY <1>8, <1>9, <1>10, Zenon

\* A turn comes to the same in the whole log, if it does not wait.
LEMMA TurnSame ==
  ASSUME NEW a, NEW b, NEW c, NEW d, NEW m, NEW pos, NEW len, NEW separator, NEW s,
         Turns(a, b, c, d, m, pos, len, separator, s)
  PROVE  WalksAgree(a, b, c, d, pos, len, separator, s)
<1> DEFINE E == TagEnds(c, pos, separator)
           t == Least(E)
<1>1. CASE E = {}
  BY <1>1, TextTurn DEF Turns
<1>2. CASE E # {}
  <2>1. t \in Int /\ m \in Int
    <3>1. Apart(a, b, c, d, m)
      BY SplitFacts DEF Turns
    <3>2. c \in Seq(Byte) /\ m \in Nat /\ pos \in Nat
      BY <3>1 DEF Apart, Turns
    <3>3. t \in pos .. Len(c) - 1
      BY <1>2, <3>2, TagEndIs
    <3> QED BY <3>2, <3>3
  <2>2. t < m \/ t >= m
    <3> HIDE DEF t
    <3> QED BY <2>1
  <2>3. CASE t >= m
    BY <1>2, <2>3, LastByteTurn
  <2>4. CASE t < m /\ At(c, t) = EQUALS
    BY <1>2, <2>4, EqualsTurn
  <2>5. CASE t < m /\ At(c, t) # EQUALS
    BY <1>2, <2>5, SeparatorTurn
  <2> HIDE DEF t
  <2> QED BY <2>2, <2>3, <2>4, <2>5
<1> QED BY <1>1, <1>2

\* The turns of walk, for the variables of its loop.
AnyTurn == [pos : Nat, data_len : Nat \cup {None}]
FirstTurn == [pos |-> 0, data_len |-> None]

TurnsOf(b, separator, override, at_end) ==
  [s \in AnyTurn |-> WalkStop(b, s.pos, s.data_len, separator, override, at_end)]

NextTurn(stop) == [pos |-> stop.after, data_len |-> stop.data_len]

\* The turns of F get further on, and no further than L.
Advances(F, L) ==
  \A s \in AnyTurn : F[s].kind = "Walking" =>
    /\ s.pos < F[s].after /\ F[s].after <= L
    /\ NextTurn(F[s]) \in AnyTurn

\* walk takes its turns from the first on.
WalksBy(b, F, L, separator, override, at_end) ==
  /\ L \in Nat /\ Advances(F, L)
  /\ \E f : IsWalk(f, F, AnyTurn, 0) /\ walk(b, separator, override, at_end) = f[FirstTurn]

\* The variables of the loop.
LEMMA TurnsFacts ==
  /\ FirstTurn \in AnyTurn /\ FirstTurn.pos = 0 /\ FirstTurn.data_len = None
  /\ \A s \in AnyTurn : s.pos \in Nat /\ s.data_len \in Nat \cup {None}
  /\ \A a \in Nat, d \in Nat \cup {None} : [pos |-> a, data_len |-> d] \in AnyTurn
BY DEF AnyTurn, FirstTurn

\* walk is what IsWalk says of its turns.
LEMMA WalkIs ==
  ASSUME NEW b \in Seq(Byte), Len(b) >= 1, At(b, 0) = 56, NEW at_end \in BOOLEAN,
         NEW separator \in Byte, NEW override \in Byte \cup {None}
  PROVE  WalksBy(b, TurnsOf(b, separator, override, at_end), Len(Capped(b, at_end)),
                 separator, override, at_end)
<1> DEFINE S == AnyTurn
           stop(s) == WalkStop(b, s.pos, s.data_len, separator, override, at_end)
           F == TurnsOf(b, separator, override, at_end)
           WalkOf(f) == [turn \in S |-> IF stop(turn).kind = "Walking"
                                          THEN f[[pos |-> stop(turn).after,
                                                  data_len |-> stop(turn).data_len]]
                                          ELSE stop(turn)]
           from == CHOOSE f : f = WalkOf(f)
           L == Len(Capped(b, at_end))
<1>1. walk(b, separator, override, at_end) = from[FirstTurn]
  BY Zenon DEF walk, FirstTurn, AnyTurn
<1>2. L \in Nat
  BY CappedProperties
<1>4. \A s \in S : StopResult(b, Capped(b, at_end), s.pos, at_end, stop(s))
  BY TurnsFacts, WalkStopCases
<1>5. \A s \in S : F[s] = stop(s)
  <2> HIDE DEF S
  <2> QED BY DEF TurnsOf, S
<1>6. ASSUME NEW s \in S, F[s].kind = "Walking"
      PROVE  /\ s.pos < F[s].after /\ F[s].after <= L
             /\ NextTurn(F[s]) \in S
  <2> DEFINE x == stop(s)
  <2>1. F[s] = x /\ StopResult(b, Capped(b, at_end), s.pos, at_end, x)
    BY <1>4, <1>5
  <2> HIDE DEF x, F, L, S
  <2>2. x.kind = "Walking"
    BY <1>6, <2>1
  <2>3. ~EndResult(b, at_end, x)
    BY <2>2 DEF EndResult, EndOK, WaitOK, Waiting
  <2>4. /\ s.pos < x.after /\ x.after <= L
        /\ x.after \in Nat /\ x.data_len \in Nat \cup {None}
    BY <2>1, <2>2, <2>3 DEF StopResult, L
  <2>5. NextTurn(x) \in S
    BY <2>4, TurnsFacts DEF NextTurn, S
  <2> QED BY <2>1, <2>4, <2>5
<1>7. Advances(F, L)
  <2> HIDE DEF F, L
  <2> QED BY <1>6 DEF Advances
<1> HIDE DEF stop, L
<1>8. \A f : IsWalk(f, F, S, 0) <=> f = WalkOf(f)
  <2> SUFFICES ASSUME NEW f
               PROVE  IsWalk(f, F, S, 0) <=> f = WalkOf(f)
    OBVIOUS
  <2> DEFINE g == [s \in S |-> IF s.pos >= 0 /\ F[s].kind = "Walking"
                                 THEN f[[pos |-> F[s].after, data_len |-> F[s].data_len]]
                               ELSE F[s]]
  <2>1. \A s \in S : s.pos >= 0
    BY TurnsFacts
  <2>2. g = WalkOf(f)
    <3> HIDE DEF S, F
    <3> QED BY <1>5, <2>1
  <2> HIDE DEF WalkOf, F, S
  <2> QED BY <2>2 DEF IsWalk
<1> HIDE DEF F, S
<1>9. \E f : IsWalk(f, F, S, 0)
  <2>1. \A s \in S : s.pos \in Nat
    BY TurnsFacts DEF S
  <2>2. \A s \in S : F[s].kind = "Walking" =>
          /\ s.pos < F[s].after /\ F[s].after <= L
          /\ [pos |-> F[s].after, data_len |-> F[s].data_len] \in S
    BY <1>7 DEF Advances, NextTurn, S
  <2> QED BY <1>2, <2>1, <2>2, WalkExists
<1>10. IsWalk(from, F, S, 0)
  <2> HIDE DEF WalkOf
  <2>1. \E f : f = WalkOf(f)
    BY <1>8, <1>9
  <2>2. from = WalkOf(from)
    BY <2>1
  <2> QED BY <1>8, <2>2
<1> HIDE DEF from
<1> QED BY <1>1, <1>2, <1>7, <1>10 DEF WalksBy, F, S, L

\* The walks of F and H come to the same, or that of F waits, from any turn of R.
TurnsMeet(F, H, R, s) ==
  \/ F[s] = Waiting
  \/ F[s].kind = "Walking" /\ F[NextTurn(F[s])] = Waiting
  \/ H[s] = F[s] /\ (F[s].kind = "Walking" => NextTurn(F[s]) \in R)

\* Walks whose turns meet come to the same.
LEMMA WalksMeet ==
  ASSUME NEW F, NEW H, NEW L \in Nat, Advances(F, L), NEW R, R \subseteq AnyTurn,
         \A s \in R : TurnsMeet(F, H, R, s),
         NEW f, IsWalk(f, F, AnyTurn, 0), NEW h, IsWalk(h, H, AnyTurn, 0)
  PROVE  \A s \in R : Same(f[s], h[s])
<1> DEFINE Bad == {s \in R : ~Same(f[s], h[s])}
           Left == {k \in Nat : \E s \in Bad : s.pos + k >= L}
           k == Least(Left)
<1>1. \A s \in AnyTurn : s.pos \in Nat /\ s.pos >= 0
  BY TurnsFacts
<1>2. ASSUME NEW s \in AnyTurn
      PROVE  f[s] = IF F[s].kind = "Walking" THEN f[NextTurn(F[s])] ELSE F[s]
  BY <1>1 DEF IsWalk, NextTurn
<1>3. ASSUME NEW s \in AnyTurn
      PROVE  h[s] = IF H[s].kind = "Walking" THEN h[NextTurn(H[s])] ELSE H[s]
  BY <1>1 DEF IsWalk, NextTurn
<1>4. Waiting.kind # "Walking"
  BY DEF Waiting
<1>5. ASSUME NEW s \in Bad
      PROVE  /\ F[s].kind = "Walking" /\ NextTurn(F[s]) \in Bad
             /\ s.pos < NextTurn(F[s]).pos /\ NextTurn(F[s]).pos <= L
  <2>1. s \in R /\ s \in AnyTurn /\ ~Same(f[s], h[s])
    OBVIOUS
  <2>2. f[s] # Waiting /\ h[s] # f[s]
    BY <2>1 DEF Same
  <2>3. TurnsMeet(F, H, R, s)
    BY <2>1
  <2>4. F[s] # Waiting
    BY <1>2, <1>4, <2>1, <2>2
  <2>5. ASSUME F[s].kind = "Walking" PROVE NextTurn(F[s]) \in AnyTurn
    BY <2>1, <2>5 DEF Advances
  <2>6. ~(F[s].kind = "Walking" /\ F[NextTurn(F[s])] = Waiting)
    BY <1>2, <1>4, <2>1, <2>2, <2>5
  <2>7. H[s] = F[s] /\ (F[s].kind = "Walking" => NextTurn(F[s]) \in R)
    BY <2>3, <2>4, <2>6 DEF TurnsMeet
  <2>8. F[s].kind = "Walking"
    BY <1>2, <1>3, <2>1, <2>2, <2>7
  <2>9. f[s] = f[NextTurn(F[s])] /\ h[s] = h[NextTurn(F[s])]
    BY <1>2, <1>3, <2>1, <2>7, <2>8
  <2>10. NextTurn(F[s]) \in Bad
    BY <2>1, <2>7, <2>8, <2>9
  <2>11. s.pos < NextTurn(F[s]).pos /\ NextTurn(F[s]).pos <= L
    BY <2>1, <2>8 DEF Advances, NextTurn
  <2> HIDE DEF Bad
  <2> QED BY <2>8, <2>10, <2>11
<1>6. Bad \subseteq AnyTurn
  OBVIOUS
<1> HIDE DEF Bad
<1>7. ASSUME NEW s \in Bad
      PROVE  FALSE
  <2>1. L \in Left
    BY <1>1, <1>6
  <2>2. k \in Left /\ \A n \in Left : k <= n
    <3>1. Left \subseteq Nat /\ Left # {}
      BY <2>1
    <3> HIDE DEF Left
    <3> QED BY <3>1, LeastProperties
  <2>3. PICK r \in Bad : r.pos + k >= L
    BY <2>2
  <2> DEFINE n == NextTurn(F[r])
  <2>4. n \in Bad /\ n.pos <= L /\ n.pos > r.pos /\ n.pos \in Nat /\ r.pos \in Nat
    <3>1. n \in Bad /\ r.pos < n.pos /\ n.pos <= L
      BY <1>5
    <3>2. n \in AnyTurn /\ r \in AnyTurn
      BY <1>6, <3>1
    <3>3. n.pos \in Nat /\ r.pos \in Nat
      BY <1>1, <3>2
    <3> HIDE DEF n
    <3> QED BY <3>1, <3>3
  <2> HIDE DEF n
  <2>5. k \in Nat /\ k # 0
    <3>1. k \in Nat
      BY <2>2
    <3> HIDE DEF k
    <3> QED BY <2>3, <2>4, <3>1
  <2>6. k - 1 \in Left
    <3>1. n.pos + (k - 1) >= L /\ k - 1 \in Nat
      <4> HIDE DEF k
      <4> QED BY <2>3, <2>4, <2>5
    <3> HIDE DEF k
    <3> QED BY <2>4, <3>1
  <2> HIDE DEF k, Left
  <2> QED BY <2>2, <2>5, <2>6
<1> QED BY <1>7 DEF Bad

\* A turn of walk is one at the field that capped shows.
LEMMA TurnIs ==
  ASSUME NEW b, NEW pos, NEW len, NEW separator, NEW s, NEW at_end
  PROVE  WalkStop(b, pos, len, separator, s, at_end)
           = TurnOf(b, Capped(b, at_end), pos, len, separator, s, at_end)
BY Zenon DEF WalkStop, TurnOf

\* The turn that walks on is at a field with its separator.
WalksOn(c, is_c, f, x) ==
  /\ is_c /\ f.value_end # Len(c)
  /\ x.after = f.value_end + 1 /\ x.data_len = pending_data_len(c, f)

LEMMA WalkingIs ==
  ASSUME NEW a, NEW c, NEW is_c, NEW f, NEW pos, NEW len, NEW s, NEW x,
         x = StopAtField(a, c, is_c, f, pos, len, s, FALSE), x.kind = "Walking"
  PROVE  WalksOn(c, is_c, f, x)
<1> DEFINE to == CheckedEnd(c, is_c, f, len)
           breaks == Positions(c, First(pos), to, LF)
           start == StartIn(a, c, First(pos), to, s, FALSE)
           next == [kind |-> "Walking", after |-> f.value_end + 1,
                    data_len |-> pending_data_len(c, f)]
<1>1. x # Waiting /\ x.kind = "Walking"
  <2>1. Waiting.kind # "Walking"
    BY DEF Waiting
  <2> QED BY <2>1
<1>2. x = SearchField(a, c, is_c, f, First(pos), to, s, FALSE)
  BY <1>1, StopAtFieldIs
<1>3. x = StopAt(a, c, is_c, f, start, breaks, FALSE)
  BY <1>2, SearchFieldIs
<1> HIDE DEF to, breaks, start
<1>4. after_message(a, f.value_end + 1, FALSE).kind # "Walking"
  BY DEF after_message, End, Waiting
<1>5. /\ \A i, j, t : End(i, j, t).kind # "Walking"
      /\ \A i, t : at_line_break(c, i, t).kind # "Walking"
  BY DEF at_line_break, End
<1>a. next.kind = "Walking" /\ next.after = f.value_end + 1
      /\ next.data_len = pending_data_len(c, f)
  OBVIOUS
<1>6. is_c /\ f.value_end # Len(c) /\ x = next
  BY <1>1, <1>3, <1>4, <1>5 DEF StopAt
<1> HIDE DEF next
<1>7. x.after = f.value_end + 1 /\ x.data_len = pending_data_len(c, f)
  BY <1>6, <1>a
<1> QED BY <1>6, <1>7 DEF WalksOn

\* What it states for the next is stated of b.
LEMMA StatedNext ==
  ASSUME NEW a, NEW b \in Seq(Byte), NEW c \in Seq(Byte), Begins(c, b), NEW pos \in Nat,
         NEW len \in Nat \cup {None}, NEW separator \in Byte, NEW s, NEW x,
         x = TurnOf(a, c, pos, len, separator, s, FALSE), x.kind = "Walking"
  PROVE  Stated(b, separator, x.after, x.data_len)
<1> DEFINE is_c == TagEnds(c, pos, separator) # {}
           f == next_field(c, pos, len, separator)
           t == Least(TagEnds(c, pos, separator))
           e == ValueEnd(c, t + 1, len, separator)
<1>1. WalksOn(c, is_c, f, x)
  <2>1. x = StopAtField(a, c, is_c, f, pos, len, s, FALSE)
    BY Zenon DEF TurnOf
  <2> HIDE DEF is_c, f
  <2> QED BY <2>1, WalkingIs
<1>2. SUFFICES ASSUME x.data_len # None
               PROVE  StatesLength(b, separator, x.after, x.data_len)
  BY DEF Stated
<1>3. is_c /\ f.value_end # Len(c) /\ x.after = f.value_end + 1
      /\ x.data_len = pending_data_len(c, f)
  <2> HIDE DEF is_c, f
  <2> QED BY <1>1 DEF WalksOn
<1>4. f.tag \in LengthTags /\ x.data_len = parse_u32(Value(c, f))
  <2> HIDE DEF f
  <2> QED BY <1>2, <1>3 DEF pending_data_len
<1>5. MALFORMED \notin LengthTags
  BY TokenizerAssumption DEF MALFORMED
<1>6. At(c, t) = EQUALS
  <2>1. SUFFICES ASSUME At(c, t) # EQUALS PROVE FALSE
    OBVIOUS
  <2>2. f = Field(MALFORMED, pos, t)
    BY <2>1, NextFieldIs
  <2>3. f.tag = MALFORMED
    BY <2>2 DEF Field
  <2> QED BY <1>4, <1>5, <2>3
<1>7. /\ f.tag = parse_u32(Slice(c, pos, t))
      /\ f.value_start = t + 1 /\ f.value_end = e
  <2> DEFINE n == parse_u32(Slice(c, pos, t))
             tag == IF n = None THEN MALFORMED ELSE n
  <2>1. f.tag = tag /\ f.value_start = t + 1 /\ f.value_end = e
    BY <1>6, NextFieldIs
  <2> HIDE DEF f, e, t, n
  <2> QED BY <1>4, <1>5, <2>1 DEF n
<1>8. t \in pos .. Len(c) - 1 /\ t \in Nat /\ Len(c) \in Nat
  BY <1>3, TagEndIs
<1>9. e \in t + 1 .. Len(c) - 1 /\ At(c, e) = separator
  <2>1. EndsValue(c, t + 1, len, separator, e)
    <3>1. t + 1 \in Nat /\ t + 1 <= Len(c)
      BY <1>8
    <3> HIDE DEF t
    <3> QED BY <3>1, ValueEndIs
  <2>2. e # Len(c)
    BY <1>3, <1>7
  <2> HIDE DEF e, t
  <2>3. CASE ByLength(c, t + 1, len, separator)
    BY <1>8, <2>1, <2>3 DEF EndsValue, ByLength, None
  <2>4. CASE ~ByLength(c, t + 1, len, separator)
    BY <1>8, <2>1, <2>2, <2>4 DEF EndsValue
  <2> QED BY <2>3, <2>4
<1> HIDE DEF e, t, f, is_c
<1>10. /\ Len(c) <= Len(b) /\ \A k \in 0 .. Len(c) - 1 : At(c, k) = At(b, k)
  <2>1. Len(c) <= Len(b) /\ \A k \in 1 .. Len(c) : c[k] = b[k]
    BY Zenon DEF Begins
  <2>2. ASSUME NEW k \in 0 .. Len(c) - 1 PROVE At(c, k) = At(b, k)
    <3>1. k + 1 \in 1 .. Len(c)
      BY <1>8
    <3> QED BY <2>1, <3>1 DEF At
  <2> QED BY <2>1, <2>2
<1>11. \A i, j \in Nat : i <= j /\ j <= Len(c) => Slice(b, i, j) = Slice(c, i, j)
  <2> SUFFICES ASSUME NEW i \in Nat, NEW j \in Nat, i <= j, j <= Len(c)
               PROVE  Slice(b, i, j) = Slice(c, i, j)
    OBVIOUS
  <2>1. \A k \in i + 1 .. j : b[k] = c[k]
    <3>1. \A k \in 1 .. Len(c) : c[k] = b[k]
      BY Zenon DEF Begins
    <3> QED BY <1>8, <3>1
  <2>2. ASSUME NEW p \in Nat, p = 0 PROVE Slice(b, i, j) = Slice(c, i, j)
    <3>1. p + j <= Len(b) /\ \A k \in i + 1 .. j : b[p + k] = c[k]
      BY <1>8, <1>10, <2>1, <2>2
    <3>2. Slice(b, p + i, p + j) = Slice(c, i, j)
      BY <3>1, SliceEqual
    <3>3. p + i = i /\ p + j = j
      BY <2>2
    <3> QED BY <3>2, <3>3
  <2> QED BY <2>2
<1>12. Slice(b, pos, t) = Slice(c, pos, t) /\ Slice(b, t + 1, e) = Slice(c, t + 1, e)
  <2>1. /\ pos <= t /\ t <= Len(c) /\ t + 1 \in Nat /\ e \in Nat /\ t + 1 <= e /\ e <= Len(c)
    BY <1>8, <1>9
  <2> QED BY <1>8, <1>11, <2>1
<1>13. At(b, t) = EQUALS /\ At(b, e) = separator
  BY <1>6, <1>8, <1>9, <1>10
<1>14. /\ parse_u32(Slice(b, pos, t)) \in LengthTags
       /\ parse_u32(Slice(b, t + 1, e)) = x.data_len
  BY <1>4, <1>7, <1>12 DEF Value
<1> DEFINE p == x.after
<1>15. /\ p - 1 = e /\ pos \in 0 .. p - 1 /\ t \in pos .. p - 2
  <2>1. p = e + 1
    BY <1>3, <1>7
  <2> HIDE DEF p
  <2> QED BY <1>8, <1>9, <2>1
<1> HIDE DEF p
<1>16. StatesLength(b, separator, p, x.data_len)
  BY <1>13, <1>14, <1>15 DEF StatesLength
<1> QED BY <1>16 DEF p

\* Where c ends nothing is decided.
LEMMA RestWaits ==
  ASSUME NEW a \in Seq(Byte), ~CappedFinal(a, FALSE), NEW len, NEW separator, NEW s
  PROVE  TurnOf(a, a, Len(a), len, separator, s, FALSE) = Waiting
<1> DEFINE pos == Len(a)
           is_c == TagEnds(a, pos, separator) # {}
           f == next_field(a, pos, len, separator)
<1>1. pos \in Nat
  OBVIOUS
<1>2. ~is_c
  BY <1>1 DEF TagEnds
<1>3. First(pos) \in Nat /\ pos <= First(pos)
  BY <1>1 DEF First
<1> HIDE DEF is_c, f
<1>4. ~OpenValue(a, a, is_c, f, len, FALSE) /\ CheckedEnd(a, is_c, f, len) = Len(a)
  BY <1>2 DEF OpenValue, CheckedEnd
<1>5. StopAtField(a, a, is_c, f, pos, len, s, FALSE)
        = SearchField(a, a, is_c, f, First(pos), Len(a), s, FALSE)
  BY <1>4, StopAtFieldIs
<1>6. SearchField(a, a, is_c, f, First(pos), Len(a), s, FALSE) = AtField(a, a, is_c, f, FALSE)
  <2> DEFINE from == First(pos)
  <2> HIDE DEF from
  <2>1. from \in Nat /\ Len(a) \in Nat /\ Len(a) <= from
    BY <1>1, <1>3 DEF from
  <2>2. SearchField(a, a, is_c, f, from, Len(a), s, FALSE) = AtField(a, a, is_c, f, FALSE)
    BY <2>1, SearchNothing, Zenon
  <2> QED BY <2>2 DEF from
<1>7. AtField(a, a, is_c, f, FALSE) = Waiting
  BY <1>2 DEF AtField
<1> QED BY <1>5, <1>6, <1>7, Zenon DEF TurnOf, is_c, f

\* A message's first bytes, a of them so far and b when the log ends, and the
\* bytes c and d of each that it can hold.
Grows(a, b, m, separator) ==
  /\ a \in Seq(Byte) /\ b \in Seq(Byte) /\ Begins(a, b) /\ Len(a) >= 1 /\ At(a, 0) = 56
  /\ separator \in Byte /\ ~DependsOnSplit(b, separator)
  /\ Cut(a, b, Capped(a, FALSE), Capped(b, TRUE), m)

\* What find_end is given of such a message is a Split.
LEMMA GrowsSplit ==
  ASSUME NEW a, NEW b, NEW m, NEW separator, Grows(a, b, m, separator)
  PROVE  /\ Split(a, b, Capped(a, FALSE), Capped(b, TRUE), m, separator)
         /\ Len(b) >= 1 /\ At(b, 0) = 56
<1> DEFINE c == Capped(a, FALSE)
           d == Capped(b, TRUE)
<1>1. a \in Seq(Byte) /\ b \in Seq(Byte) /\ Begins(a, b) /\ Len(a) >= 1 /\ At(a, 0) = 56
  BY DEF Grows
<1>2. Len(a) <= Len(b) /\ \A k \in 1 .. Len(a) : a[k] = b[k]
  BY <1>1, Zenon DEF Begins
<1>3. Len(b) >= 1 /\ At(b, 0) = 56
  BY <1>1, <1>2 DEF At
<1>4. /\ c \in Seq(Byte) /\ Len(c) \in 1 .. Len(a)
      /\ \A i \in 0 .. Len(c) - 1 : At(c, i) = At(a, i)
  BY <1>1, CappedProperties, Zenon
<1>5. /\ d \in Seq(Byte) /\ Len(d) \in 1 .. Len(b) /\ Len(d) <= MAX_MESSAGE_LEN
      /\ \A i \in 0 .. Len(d) - 1 : At(d, i) = At(b, i)
  BY <1>1, <1>3, CappedProperties, Zenon
<1> HIDE DEF c, d
<1>6. Begins(c, b)
  <2>1. Len(c) <= Len(b)
    BY <1>1, <1>2, <1>4
  <2>2. ASSUME NEW k \in 1 .. Len(c) PROVE c[k] = b[k]
    <3>1. k - 1 \in 0 .. Len(c) - 1 /\ (k - 1) + 1 = k /\ k \in 1 .. Len(a)
      BY <1>1, <1>4
    <3>2. At(c, k - 1) = At(a, k - 1)
      BY <1>4, <3>1
    <3> QED BY <1>2, <3>1, <3>2 DEF At
  <2> QED BY <2>1, <2>2 DEF Begins
<1>7. Begins(d, b)
  <2>1. Len(d) <= Len(b)
    BY <1>5
  <2>2. ASSUME NEW k \in 1 .. Len(d) PROVE d[k] = b[k]
    <3>1. k - 1 \in 0 .. Len(d) - 1 /\ (k - 1) + 1 = k
      BY <1>5
    <3>2. At(d, k - 1) = At(b, k - 1)
      BY <1>5, <3>1
    <3> QED BY <3>1, <3>2 DEF At
  <2> QED BY <2>1, <2>2 DEF Begins
<1> QED BY <1>3, <1>5, <1>6, <1>7 DEF Grows, Split, c, d

\* Where the fields end a message, once it is decided, stays.
LEMMA WalkSame ==
  ASSUME NEW a, NEW b, NEW m, NEW separator, Grows(a, b, m, separator),
         NEW s \in Byte \cup {None}
  PROVE  Same(walk(a, separator, s, FALSE), walk(b, separator, s, TRUE))
<1> DEFINE c == Capped(a, FALSE)
           d == Capped(b, TRUE)
           F == TurnsOf(a, separator, s, FALSE)
           H == TurnsOf(b, separator, s, TRUE)
           L == Len(c)
           R == {q \in AnyTurn : \/ CappedFinal(a, FALSE)
                                 \/ q.pos <= m /\ Stated(b, separator, q.pos, q.data_len)}
<1>1. /\ a \in Seq(Byte) /\ b \in Seq(Byte) /\ Len(a) >= 1 /\ At(a, 0) = 56
      /\ separator \in Byte /\ Len(b) >= 1 /\ At(b, 0) = 56 /\ Cut(a, b, c, d, m)
      /\ Split(a, b, c, d, m, separator)
  BY GrowsSplit DEF Grows
<1>2. WalksBy(a, F, L, separator, s, FALSE)
  BY <1>1, WalkIs
<1>3. WalksBy(b, H, Len(d), separator, s, TRUE)
  BY <1>1, WalkIs
<1>4. \A q \in AnyTurn : /\ F[q] = TurnOf(a, c, q.pos, q.data_len, separator, s, FALSE)
                         /\ H[q] = TurnOf(b, d, q.pos, q.data_len, separator, s, TRUE)
  BY TurnIs DEF TurnsOf
<1>5. /\ c \in Seq(Byte) /\ m \in Nat /\ L \in Nat /\ m <= L /\ m >= L - 1
      /\ ~CappedFinal(a, FALSE) => c = a
  <2> HIDE DEF c, d
  <2>1. Shared(c, d, m) /\ (~CappedFinal(a, FALSE) => c = a)
    BY <1>1, Zenon DEF Cut
  <2>2. c \in Seq(Byte) /\ m \in 1 .. Len(c) /\ (m < Len(c) => m = Len(c) - 1)
    BY <2>1 DEF Shared
  <2>3. m \in Nat /\ Len(c) \in Nat /\ m <= Len(c) /\ m >= Len(c) - 1
    BY <2>2
  <2> QED BY <2>1, <2>2, <2>3
<1> HIDE DEF F, H, c, d, L
<1>6. ASSUME NEW q \in R PROVE TurnsMeet(F, H, R, q)
  <2> DEFINE x == F[q]
             y == H[q]
             n == NextTurn(x)
  <2>1. q \in AnyTurn /\ q.pos \in Nat /\ q.data_len \in Nat \cup {None}
    BY TurnsFacts
  <2>2. /\ x = TurnOf(a, c, q.pos, q.data_len, separator, s, FALSE)
        /\ y = TurnOf(b, d, q.pos, q.data_len, separator, s, TRUE)
    BY <1>4, <2>1
  <2>3. Agrees(a, c, x, y)
    <3>1. CASE CappedFinal(a, FALSE)
      BY <1>1, <2>1, <2>2, <3>1, FinalTurn, ZenonT(40)
    <3>2. CASE ~CappedFinal(a, FALSE)
      <4>1. Turns(a, b, c, d, m, q.pos, q.data_len, separator, s)
        BY <1>1, <2>1, <3>2 DEF Turns
      <4>2. WalksAgree(a, b, c, d, q.pos, q.data_len, separator, s)
        BY <4>1, TurnSame
      <4> QED BY <2>2, <4>2 DEF WalksAgree
    <3> QED BY <3>1, <3>2
  <2>4. ASSUME x.kind = "Walking"
        PROVE  n \in AnyTurn /\ n.pos = x.after /\ n.data_len = x.data_len /\ n.pos <= L
    <3>1. Advances(F, L)
      BY <1>2 DEF WalksBy
    <3>2. n \in AnyTurn /\ x.after <= L
      BY <2>1, <2>4, <3>1 DEF Advances
    <3> HIDE DEF x
    <3> QED BY <3>2 DEF NextTurn
  <2>5. ASSUME WaitsNext(a, c, x) PROVE x = Waiting \/ (x.kind = "Walking" /\ F[n] = Waiting)
    <3>1. CASE x.kind = "Walking" /\ x.after = Len(c) /\ ~CappedFinal(a, FALSE)
      <4>1. c = a /\ n \in AnyTurn /\ n.pos = Len(a)
        BY <1>5, <2>4, <3>1
      <4>2. F[n] = TurnOf(a, a, Len(a), n.data_len, separator, s, FALSE)
        BY <1>4, <4>1
      <4> HIDE DEF n
      <4>3. F[n] = Waiting
        BY <1>1, <3>1, <4>2, RestWaits, ZenonT(40)
      <4> QED BY <3>1, <4>3
    <3> HIDE DEF n, x
    <3> QED BY <2>5, <3>1 DEF WaitsNext
  <2>6. ASSUME ~WaitsNext(a, c, x), x.kind = "Walking" PROVE n \in R
    <3>1. CASE CappedFinal(a, FALSE)
      BY <2>4, <2>6, <3>1
    <3>2. CASE ~CappedFinal(a, FALSE)
      <4>1. Begins(c, b)
        BY <1>1 DEF Split
      <4>2. Stated(b, separator, x.after, x.data_len)
        <5> HIDE DEF x
        <5> QED BY <1>1, <1>5, <2>1, <2>2, <2>6, <4>1, StatedNext
      <4>3. x.after # L
        <5> HIDE DEF x
        <5> QED BY <2>6, <3>2 DEF WaitsNext, L
      <4>4. n \in AnyTurn /\ n.pos \in Nat
        BY <2>4, <2>6, TurnsFacts
      <4>5. n.pos <= m
        <5> HIDE DEF n, x
        <5> QED BY <1>5, <2>4, <2>6, <4>3, <4>4
      <4>6. Stated(b, separator, n.pos, n.data_len)
        BY <2>4, <2>6, <4>2
      <4> HIDE DEF n
      <4> QED BY <4>4, <4>5, <4>6
    <3> HIDE DEF R
    <3> QED BY <3>1, <3>2
  <2> HIDE DEF n, R, x, y
  <2>7. CASE WaitsNext(a, c, x)
    BY <2>5, <2>7 DEF TurnsMeet, n, x
  <2>8. CASE ~WaitsNext(a, c, x)
    <3>1. y = x
      BY <2>3, <2>8 DEF Agrees
    <3> QED BY <2>6, <2>8, <3>1 DEF TurnsMeet, n, x, y
  <2> QED BY <2>7, <2>8
<1>7. FirstTurn \in R
  <2>1. FirstTurn \in AnyTurn /\ FirstTurn.pos = 0 /\ FirstTurn.data_len = None
    BY TurnsFacts
  <2>2. 0 <= m
    BY <1>5
  <2> QED BY <2>1, <2>2 DEF Stated
<1>8. R \subseteq AnyTurn
  OBVIOUS
<1> HIDE DEF R
<1>9. PICK f : IsWalk(f, F, AnyTurn, 0) /\ walk(a, separator, s, FALSE) = f[FirstTurn]
  BY <1>2 DEF WalksBy
<1>10. PICK h : IsWalk(h, H, AnyTurn, 0) /\ walk(b, separator, s, TRUE) = h[FirstTurn]
  BY <1>3 DEF WalksBy
<1>11. Advances(F, L)
  BY <1>2 DEF WalksBy
<1>12. \A q \in R : Same(f[q], h[q])
  BY <1>5, <1>6, <1>8, <1>9, <1>10, <1>11, WalksMeet
<1>13. Same(f[FirstTurn], h[FirstTurn])
  BY <1>7, <1>12
<1> QED BY <1>9, <1>10, <1>13

\* Where the message ends, once it is decided, stays.
LEMMA FindEndSame ==
  ASSUME NEW a, NEW b, NEW m, NEW separator, Grows(a, b, m, separator),
         NEW s \in Byte \cup {None}, NEW i \in Nat, i + 3 <= m,
         At(Capped(a, FALSE), i) = separator
  PROVE  Same(find_end(a, separator, s, FALSE), find_end(b, separator, s, TRUE))
<1> DEFINE x == by_body_length(a, separator, FALSE)
           y == by_body_length(b, separator, TRUE)
<1>1. Same(x, y)
  BY ByBodyLengthSame DEF Grows
<1>2. Same(walk(a, separator, s, FALSE), walk(b, separator, s, TRUE))
  BY WalkSame
<1>3. /\ find_end(a, separator, s, FALSE)
           = IF x.kind = "NotFound" THEN walk(a, separator, s, FALSE) ELSE x
      /\ find_end(b, separator, s, TRUE)
           = IF y.kind = "NotFound" THEN walk(b, separator, s, TRUE) ELSE y
  BY Zenon DEF find_end
<1> HIDE DEF x, y
<1>4. Waiting.kind # "NotFound"
  BY DEF Waiting
<1> DEFINE v == walk(a, separator, s, FALSE)
           w == walk(b, separator, s, TRUE)
           p == find_end(a, separator, s, FALSE)
           q == find_end(b, separator, s, TRUE)
<1> HIDE DEF v, w, p, q
<1>5. /\ p = IF x.kind = "NotFound" THEN v ELSE x
      /\ q = IF y.kind = "NotFound" THEN w ELSE y
      /\ Same(v, w)
  BY <1>2, <1>3 DEF v, w, p, q
<1>6. Same(p, q)
  BY <1>1, <1>4, <1>5 DEF Same
<1> QED BY <1>6 DEF p, q

\* The line that is copied.
LineEnd(c, at) == End(IF at > 0 /\ At(c, at - 1) = CR THEN at - 1 ELSE at, at + 1, FALSE)

LEMMA CaretLineIs ==
  ASSUME NEW b, NEW at_end
  PROVE  LET c == Slice(b, 0, Lesser(Len(b), MAX_MESSAGE_LEN))
             breaks == Positions(c, 0, Len(c), LF)
         IN  CaretLine(b, at_end) =
               IF breaks # {} THEN LineEnd(c, Least(breaks))
               ELSE IF at_end \/ Len(c) = MAX_MESSAGE_LEN THEN End(Len(c), Len(c), FALSE)
               ELSE Waiting
BY Zenon DEF CaretLine, LineEnd

\* The line that is copied, once it is decided, stays.
LEMMA CaretLineSame ==
  ASSUME NEW a \in Seq(Byte), NEW b \in Seq(Byte), Begins(a, b)
  PROVE  Same(CaretLine(a, FALSE), CaretLine(b, TRUE))
<1> DEFINE p == Lesser(Len(a), MAX_MESSAGE_LEN)
           q == Lesser(Len(b), MAX_MESSAGE_LEN)
           c == Slice(a, 0, p)
           d == Slice(b, 0, q)
           A == Positions(c, 0, Len(c), LF)
           B == Positions(d, 0, Len(d), LF)
           x == CaretLine(a, FALSE)
           y == CaretLine(b, TRUE)
<1>1. /\ x = IF A # {} THEN LineEnd(c, Least(A))
             ELSE IF FALSE \/ Len(c) = MAX_MESSAGE_LEN THEN End(Len(c), Len(c), FALSE)
             ELSE Waiting
      /\ y = IF B # {} THEN LineEnd(d, Least(B))
             ELSE IF TRUE \/ Len(d) = MAX_MESSAGE_LEN THEN End(Len(d), Len(d), FALSE)
             ELSE Waiting
  BY CaretLineIs, Zenon
<1>2. /\ Len(a) \in Nat /\ Len(b) \in Nat /\ Len(a) <= Len(b) /\ MAX_MESSAGE_LEN \in Nat
      /\ \A k \in 1 .. Len(a) : a[k] = b[k]
  BY Limits DEF Begins
<1>3. /\ p \in Nat /\ q \in Nat /\ p <= q /\ p <= Len(a) /\ q <= Len(b)
      /\ p = MAX_MESSAGE_LEN => q = p
      /\ p # MAX_MESSAGE_LEN => p = Len(a)
  BY <1>2 DEF Lesser
<1> HIDE DEF p, q
<1>4. /\ c \in Seq(Byte) /\ Len(c) = p - 0 /\ \A k \in 1 .. p - 0 : c[k] = a[0 + k]
  <2>1. 0 \in Nat /\ p \in Nat /\ 0 <= p /\ p <= Len(a)
    BY <1>3
  <2> QED BY <2>1, ByteSlices, Zenon
<1>5. /\ d \in Seq(Byte) /\ Len(d) = q - 0 /\ \A k \in 1 .. q - 0 : d[k] = b[0 + k]
  <2>1. 0 \in Nat /\ q \in Nat /\ 0 <= q /\ q <= Len(b)
    BY <1>3
  <2> QED BY <2>1, ByteSlices, Zenon
<1>6. Len(c) = p /\ Len(d) = q /\ \A k \in 0 .. p - 1 : At(c, k) = At(d, k)
  <2> HIDE DEF c, d
  <2>1. Len(c) = p /\ Len(d) = q
    BY <1>3, <1>4, <1>5
  <2>2. ASSUME NEW k \in 0 .. p - 1 PROVE c[k + 1] = d[k + 1]
    <3>1. k + 1 \in 1 .. p - 0 /\ k + 1 \in 1 .. q - 0 /\ 0 + (k + 1) = k + 1 /\ k + 1 \in 1 .. Len(a)
      BY <1>2, <1>3
    <3>2. c[k + 1] = a[0 + (k + 1)] /\ d[k + 1] = b[0 + (k + 1)]
      BY <1>4, <1>5, <3>1
    <3>3. a[k + 1] = b[k + 1]
      BY <1>2, <3>1
    <3> QED BY <3>1, <3>2, <3>3
  <2> QED BY <2>1, <2>2 DEF At
<1>7. p = MAX_MESSAGE_LEN => c = d
  <2>1. ASSUME p = MAX_MESSAGE_LEN PROVE c = d
    <3>1. q = p
      BY <1>3, <2>1
    <3>2. 0 \in Nat /\ 0 <= p
      BY <1>3
    <3>3. Slice(b, 0, p) = Slice(a, 0, p)
      BY <1>3, <3>2, BeginsPart
    <3> QED BY <3>1, <3>3
  <2> QED BY <2>1
<1>8. A = {i \in 0 .. p - 1 : At(c, i) = LF} /\ B = {i \in 0 .. q - 1 : At(d, i) = LF}
  <2> HIDE DEF c, d
  <2> QED BY <1>6 DEF Positions
<1> HIDE DEF c, d, x, y
<1>9. CASE p = MAX_MESSAGE_LEN
  <2>1. A = B /\ c = d
    BY <1>7, <1>9
  <2>2. Len(c) = MAX_MESSAGE_LEN
    BY <1>6, <1>9
  <2>3. x = y
    BY <1>1, <2>1, <2>2
  <2> QED BY <2>3 DEF Same, x, y
<1>10. CASE p # MAX_MESSAGE_LEN /\ A = {}
  <2>1. x = Waiting
    BY <1>1, <1>6, <1>10
  <2> QED BY <2>1 DEF Same, x
<1>11. CASE A # {}
  <2> DEFINE at == Least(A)
  <2>1. at \in A /\ \A k \in A : at <= k
    <3>1. A \subseteq Nat
      BY <1>8
    <3> HIDE DEF A
    <3> QED BY <1>11, <3>1, LeastProperties
  <2>2. at \in B
    BY <1>3, <1>6, <1>8, <2>1
  <2>3. ASSUME NEW k \in B PROVE at <= k
    <3>1. k \in 0 .. q - 1 /\ At(d, k) = LF /\ at \in 0 .. p - 1
      BY <1>8, <2>1
    <3> HIDE DEF at
    <3>2. CASE k < p
      <4>1. k \in A
        BY <1>3, <1>6, <1>8, <3>1, <3>2
      <4> QED BY <2>1, <4>1
    <3>3. CASE ~(k < p)
      BY <1>3, <3>1, <3>3
    <3> QED BY <3>2, <3>3
  <2>4. Least(B) = at /\ B # {}
    <3>1. B \subseteq Nat
      BY <1>8
    <3> HIDE DEF A, B, at
    <3> QED BY <2>2, <2>3, <3>1, LeastIs
  <2>5. LineEnd(d, at) = LineEnd(c, at)
    <3>1. at \in 0 .. p - 1
      BY <1>8, <2>1
    <3> HIDE DEF at
    <3>2. at > 0 => At(c, at - 1) = At(d, at - 1)
      BY <1>3, <1>6, <3>1
    <3> QED BY <3>2 DEF LineEnd
  <2>6. x = LineEnd(c, at) /\ y = LineEnd(d, Least(B))
    BY <1>1, <1>11, <2>4
  <2>7. x = y
    BY <2>4, <2>5, <2>6
  <2> QED BY <2>7 DEF Same, x, y
<1> HIDE DEF A, B
<1> QED BY <1>9, <1>10, <1>11

\* The copy of a message, with "^A" for SOH, and its end.
LEMMA CopySame ==
  ASSUME NEW a \in Seq(Byte), NEW b \in Seq(Byte), Begins(a, b), Len(a) >= 1, At(a, 0) = 56
  PROVE  Same(copy_message(a, FALSE), copy_message(b, TRUE))
<1> DEFINE x == CaretLine(a, FALSE)
           y == CaretLine(b, TRUE)
           Copied(bytes, w) == IF w.kind = "Waiting" THEN Waiting
                               ELSE CopyLine(w, Slice(bytes, 0, w.len))
<1>1. copy_message(a, FALSE) = Copied(a, x) /\ copy_message(b, TRUE) = Copied(b, y)
  BY Zenon DEF copy_message
<1>2. Same(x, y)
  BY CaretLineSame
<1>3. EndResult(a, FALSE, x)
  BY CaretLineCases
<1> HIDE DEF x, y
<1>4. CASE x = Waiting
  <2>1. x.kind = "Waiting"
    BY <1>4 DEF Waiting
  <2>2. Copied(a, x) = Waiting
    BY <2>1
  <2> QED BY <1>1, <2>2 DEF Same
<1>5. CASE x # Waiting
  <2>1. y = x /\ EndOK(a, x)
    BY <1>2, <1>3, <1>5 DEF Same, EndResult, WaitOK
  <2>2. x.len \in Nat /\ x.len <= Len(a) /\ x.kind = "End"
    <3>1. x.len \in Nat /\ x.consumed \in Nat /\ x.len <= x.consumed /\ x.consumed <= Len(a)
          /\ x.kind = "End"
      BY <2>1 DEF EndOK
    <3> QED BY <3>1
  <2>3. Slice(b, 0, x.len) = Slice(a, 0, x.len)
    <3>1. 0 \in Nat /\ 0 <= x.len
      BY <2>2
    <3> QED BY <2>2, <3>1, BeginsPart
  <2>4. Copied(b, y) = Copied(a, x)
    BY <2>1, <2>3, Zenon
  <2> HIDE DEF Copied
  <2> QED BY <1>1, <2>4 DEF Same
<1> QED BY <1>4, <1>5

\* The bytes that show a start: its separator, and the "=" of the tag after it.
ShowsStart(a, separator, i, e) ==
  /\ i + 2 <= e /\ e < Len(a) /\ At(a, i) = separator /\ At(a, e) = EQUALS
  /\ i <= MAX_BEGIN_STRING_LEN /\ e <= (i + 1) + MAX_TAG_DIGITS

\* A start shows those bytes, unless "^A" separates its fields.
LEMMA StartShows ==
  ASSUME NEW a \in Seq(Byte), NEW s \in Byte \cup {None}, check(a, s).kind = "Start",
         check(a, s).separator # CaretA
  PROVE  \E i, e \in Nat : ShowsStart(a, check(a, s).separator, i, e)
<1> DEFINE x == check(a, s)
           v == RunEnd(a, PREFIX_LEN, BeginStringByte)
           sep == CheckSeparator(a, v, s)
           from == v + (IF sep.separator = CaretA THEN 2 ELSE 1)
           e == RunEnd(a, from, Digit)
<1>0. NotStart.kind # "Start" /\ Pending.kind # "Start"
      /\ \A t : Start(t).kind = "Start" /\ Start(t).separator = t
  BY DEF NotStart, Pending, Start
<1>1. x = CheckValue(a, v, s) /\ ~(Len(a) < PREFIX_LEN)
  BY <1>0 DEF check
<1> HIDE DEF x
<1>2. x = CheckSeparated(a, v, sep) /\ ~(v > MAX_BEGIN_STRING_LEN)
  BY <1>0, <1>1 DEF CheckValue, x
<1>3. sep.kind = "Start" /\ x = CheckTag(a, from, sep.separator)
  <2> HIDE DEF sep
  <2> QED BY <1>2 DEF CheckSeparated, x
<1>4. v # Len(a) /\ (sep.separator = CaretA \/ sep.separator = At(a, v))
  BY <1>0, <1>3 DEF CheckSeparator
<1> HIDE DEF sep, v
<1>5. /\ ~(e - from > MAX_TAG_DIGITS) /\ e # Len(a) /\ e > from /\ At(a, e) = EQUALS
      /\ x.separator = sep.separator
  <2> HIDE DEF e, from
  <2>1. x.kind = "Start"
    BY DEF x
  <2>2. x = IF e - from > MAX_TAG_DIGITS THEN NotStart
            ELSE IF e = Len(a) THEN Pending
            ELSE IF e > from /\ At(a, e) = EQUALS THEN Start(sep.separator)
            ELSE NotStart
    BY <1>3 DEF CheckTag, e
  <2> QED BY <1>0, <2>1, <2>2
<1>6. sep.separator = At(a, v) /\ from = v + 1
  <2>1. x.separator # CaretA
    BY DEF x
  <2> QED BY <1>4, <1>5, <2>1
<1>7. v \in Nat /\ v < Len(a)
  <2>1. PREFIX_LEN \in Nat /\ PREFIX_LEN <= Len(a)
    BY <1>1 DEF PREFIX_LEN
  <2>2. v \in PREFIX_LEN .. Len(a)
    BY <2>1, RunEndProperties DEF v
  <2> QED BY <1>4, <2>1, <2>2
<1> HIDE DEF from
<1>8. e \in from .. Len(a)
  <2>1. from \in Nat /\ from <= Len(a)
    BY <1>6, <1>7
  <2> QED BY <2>1, RunEndProperties
<1> HIDE DEF e
<1>9. ShowsStart(a, x.separator, v, e) /\ e \in Nat
  BY <1>2, <1>5, <1>6, <1>7, <1>8, Limits DEF ShowsStart
<1> QED BY <1>7, <1>9 DEF x

\* The end of a message that starts in a, whatever separates its fields.
LEMMA MessageEndSame ==
  ASSUME NEW a \in Seq(Byte), NEW b \in Seq(Byte), Begins(a, b), Len(a) >= 1, At(a, 0) = 56,
         NEW s \in Byte \cup {None}, check(a, s).kind = "Start",
         NEW separator \in Byte \cup {CaretA}, separator = check(a, s).separator,
         separator # CaretA => ~DependsOnSplit(b, separator)
  PROVE  Same(MessageEnd(a, separator, s, FALSE), MessageEnd(b, separator, s, TRUE))
<1>1. CASE separator = CaretA
  <2>1. Same(copy_message(a, FALSE), copy_message(b, TRUE))
    BY CopySame
  <2> DEFINE p == copy_message(a, FALSE)
             q == copy_message(b, TRUE)
  <2>2. MessageEnd(a, separator, s, FALSE) = p /\ MessageEnd(b, separator, s, TRUE) = q
    BY <1>1, Zenon DEF MessageEnd
  <2> HIDE DEF p, q
  <2> QED BY <2>1, <2>2 DEF p, q
<1>2. CASE separator # CaretA
  <2> DEFINE c == Capped(a, FALSE)
             d == Capped(b, TRUE)
  <2>1. separator \in Byte /\ ~DependsOnSplit(b, separator)
    BY <1>2
  <2>2. PICK m \in Nat : Cut(a, b, c, d, m)
    <3>1. ~(At(b, Len(b) - 1) = CR /\ Len(b) = MAX_MESSAGE_LEN)
      BY <2>1 DEF DependsOnSplit
    <3> QED BY <3>1, CutExists
  <2>3. Grows(a, b, m, separator)
    BY <2>1, <2>2 DEF Grows
  <2>4. PICK i, e \in Nat : ShowsStart(a, separator, i, e)
    BY <1>2, StartShows
  <2>5. /\ Len(c) = Lesser(Len(a), MAX_MESSAGE_LEN) /\ Len(c) \in Nat
        /\ \A k \in 0 .. Len(c) - 1 : At(c, k) = At(a, k)
    <3> DEFINE n == IF FALSE /\ At(a, Len(a) - 1) = CR THEN Len(a) - 1 ELSE Len(a)
               len == Lesser(n, MAX_MESSAGE_LEN)
    <3>1. len \in 0 .. Len(a) /\ Len(c) = len /\ \A k \in 0 .. len - 1 : At(c, k) = At(a, k)
      BY CappedIs, Zenon
    <3>2. n = Len(a)
      OBVIOUS
    <3> HIDE DEF n, c
    <3>3. len = Lesser(Len(a), MAX_MESSAGE_LEN)
      BY <3>2
    <3> HIDE DEF len
    <3> QED BY <3>1, <3>3
  <2> HIDE DEF c, d
  <2>6. Shared(c, d, m)
    BY <2>2 DEF Cut
  <2>7. e < Len(c)
    BY <2>4, <2>5, Limits, LogTextAssumption DEF ShowsStart, Lesser
  <2>8. At(c, i) = separator /\ At(c, e) = EQUALS /\ i + 2 <= e
    <3>1. i + 2 <= e /\ At(a, i) = separator /\ At(a, e) = EQUALS
      BY <2>4 DEF ShowsStart
    <3> QED BY <2>5, <2>7, <3>1
  <2>9. i + 3 <= m
    <3>1. m < Len(c) => m = Len(c) - 1 /\ At(c, m) = CR
      BY <2>6 DEF Shared
    <3>2. e # m \/ m >= Len(c)
      BY <2>8, <3>1 DEF CR, EQUALS
    <3> QED BY <2>5, <2>7, <2>8, <3>1, <3>2
  <2>10. Same(find_end(a, separator, s, FALSE), find_end(b, separator, s, TRUE))
    BY <2>3, <2>8, <2>9, FindEndSame, ZenonT(40) DEF c
  <2> DEFINE p == find_end(a, separator, s, FALSE)
             q == find_end(b, separator, s, TRUE)
  <2>11. MessageEnd(a, separator, s, FALSE) = p /\ MessageEnd(b, separator, s, TRUE) = q
    BY <1>2, Zenon DEF MessageEnd
  <2> HIDE DEF p, q
  <2> QED BY <2>10, <2>11 DEF p, q
<1> QED BY <1>1, <1>2

-----------------------------------------------------------------------------
(* A read before the log ends finds what one does that has all of it. *)

\* A search that goes on at p, when ex bytes of b before it are gone.
Shifted(b, y, z, ex, p) ==
  \/ y = [kind |-> "NotFound"] /\ z = [kind |-> "NotFound"]
  \/ /\ y.kind = "Found" /\ y.at \in p .. Len(b) - 1
     /\ z = [kind |-> "Found", at |-> y.at - ex, separator |-> y.separator]

\* What is seen of b at i + ex is seen at i of its rest.
SeenAt(b, rest, ex, i) ==
  /\ Candidate(rest, i) <=> Candidate(b, i + ex)
  /\ Slice(rest, i, Len(rest)) = Slice(b, i + ex, Len(b))

\* A candidate of b is one of its rest, and checked alike.
LEMMA RestSeen ==
  ASSUME NEW b \in Seq(Byte), NEW ex \in Nat, ex <= Len(b), NEW i \in Nat, i + ex < Len(b),
         ex > 0 => i > 0
  PROVE  SeenAt(b, Slice(b, ex, Len(b)), ex, i)
<1> DEFINE rest == Slice(b, ex, Len(b))
<1>1. Len(b) \in Nat /\ Len(b) <= Len(b)
  OBVIOUS
<1>2. /\ rest \in Seq(Byte) /\ Len(rest) = Len(b) - ex
      /\ \A k \in 1 .. Len(b) - ex : rest[k] = b[ex + k]
  BY <1>1, ByteSlices, Zenon
<1> HIDE DEF rest
<1>3. At(rest, i) = At(b, i + ex)
  <2>1. i + 1 \in 1 .. Len(b) - ex /\ ex + (i + 1) = (i + ex) + 1
    BY <1>1
  <2> QED BY <1>2, <2>1 DEF At
<1>4. i > 0 => At(rest, i - 1) = At(b, (i + ex) - 1)
  <2>1. ASSUME i > 0 PROVE At(rest, i - 1) = At(b, (i + ex) - 1)
    <3>1. (i - 1) + 1 \in 1 .. Len(b) - ex /\ ex + ((i - 1) + 1) = ((i + ex) - 1) + 1
      BY <1>1, <2>1
    <3> QED BY <1>2, <3>1 DEF At
  <2> QED BY <2>1
<1>5. Candidate(rest, i) <=> Candidate(b, i + ex)
  <2>1. i > 0 <=> i + ex > 0
    OBVIOUS
  <2> QED BY <1>3, <1>4, <2>1 DEF Candidate
<1>6. Slice(rest, i, Len(rest)) = Slice(b, i + ex, Len(b))
  <2>1. i <= Len(b) - ex /\ Len(b) - ex \in Nat /\ Len(b) - ex <= Len(b) - ex
        /\ ex + i = i + ex /\ ex + (Len(b) - ex) = Len(b)
    BY <1>1
  <2>2. Slice(rest, i, Len(b) - ex) = Slice(b, ex + i, ex + (Len(b) - ex))
    BY <1>1, <2>1, SliceOfSlice, SMTT(30) DEF rest
  <2> QED BY <1>2, <2>1, <2>2
<1> QED BY <1>5, <1>6 DEF SeenAt, rest

\* The whole log decides every candidate.
LEMMA SoughtIs ==
  ASSUME NEW b \in Seq(Byte), NEW from \in Nat, NEW to \in Nat, NEW s
  PROVE  LET y == find_start(b, from, to, s, TRUE)
         IN  \/ y = [kind |-> "NotFound"] /\ NoneDecided(b, from, to, s, TRUE)
             \/ \E i \in from .. to - 1 : FoundFirst(b, from, s, TRUE, y, i)
<1>1. SearchIs(b, from, to, s, TRUE, find_start(b, from, to, s, TRUE))
  BY FindStartIs
<1> QED BY <1>1, Zenon DEF SearchIs

\* A search that goes on behind what was dropped finds what one from the
\* beginning does.
LEMMA SearchResumes ==
  ASSUME NEW b \in Seq(Byte), NEW from \in Nat, NEW p \in from .. Len(b), NEW s,
         NoneDecided(b, from, p, s, TRUE), NEW ex \in 0 .. p, ex > 0 => ex < p
  PROVE  Shifted(b, find_start(b, from, Len(b), s, TRUE),
                 find_start(Slice(b, ex, Len(b)), p - ex, Len(b) - ex, s, TRUE), ex, p)
<1> DEFINE rest == Slice(b, ex, Len(b))
           y == find_start(b, from, Len(b), s, TRUE)
           z == find_start(rest, p - ex, Len(b) - ex, s, TRUE)
           undecided(i) == Candidate(b, i) => Undecided(check(Slice(b, i, Len(b)), s), TRUE)
           start(i) == Candidate(b, i) /\ check(Slice(b, i, Len(b)), s).kind = "Start"
<1>1. /\ Len(b) \in Nat /\ p \in Nat /\ ex \in Nat /\ ex <= p /\ p <= Len(b) /\ from <= p
      /\ p - ex \in Nat /\ Len(b) - ex \in Nat
  OBVIOUS
<1>2. rest \in Seq(Byte) /\ Len(rest) = Len(b) - ex
  <2>1. ex <= Len(b) /\ Len(b) <= Len(b)
    BY <1>1
  <2> QED BY <1>1, <2>1, ByteSlices, Zenon
<1>3. ASSUME NEW i \in p - ex .. (Len(b) - ex) - 1 PROVE SeenAt(b, rest, ex, i)
  <2>1. i \in Nat /\ i + ex < Len(b) /\ ex <= Len(b) /\ (ex > 0 => i > 0)
    BY <1>1
  <2> QED BY <1>1, <2>1, RestSeen
<1>4. \/ y = [kind |-> "NotFound"] /\ NoneDecided(b, from, Len(b), s, TRUE)
      \/ \E i \in from .. Len(b) - 1 : FoundFirst(b, from, s, TRUE, y, i)
  BY <1>1, SoughtIs
<1>5. \/ z = [kind |-> "NotFound"] /\ NoneDecided(rest, p - ex, Len(b) - ex, s, TRUE)
      \/ \E i \in p - ex .. (Len(b) - ex) - 1 : FoundFirst(rest, p - ex, s, TRUE, z, i)
  <2> HIDE DEF rest
  <2> QED BY <1>1, <1>2, SoughtIs
<1> HIDE DEF rest, y, z
<1>6. ASSUME NEW i \in p - ex .. (Len(b) - ex) - 1
      PROVE  /\ i + ex \in p .. Len(b) - 1
             /\ Candidate(rest, i) <=> Candidate(b, i + ex)
             /\ check(Slice(rest, i, Len(rest)), s) = check(Slice(b, i + ex, Len(b)), s)
  BY <1>1, <1>3 DEF SeenAt
<1>7. ASSUME NEW i, start(i), undecided(i) PROVE FALSE
  BY <1>7 DEF Undecided
<1>8. ASSUME NEW i \in from .. p - 1 PROVE undecided(i)
  BY DEF NoneDecided
<1>9. CASE y = [kind |-> "NotFound"] /\ NoneDecided(b, from, Len(b), s, TRUE)
  <2>1. ASSUME NEW i \in p - ex .. (Len(b) - ex) - 1, FoundFirst(rest, p - ex, s, TRUE, z, i)
        PROVE  FALSE
    <3>1. start(i + ex)
      BY <1>6, <2>1 DEF FoundFirst
    <3>2. i + ex \in from .. Len(b) - 1
      BY <1>1, <1>6
    <3>3. undecided(i + ex)
      BY <1>9, <3>2 DEF NoneDecided
    <3> HIDE DEF start, undecided
    <3> QED BY <1>7, <3>1, <3>3
  <2>2. z = [kind |-> "NotFound"]
    BY <1>5, <2>1
  <2> QED BY <1>9, <2>2 DEF Shifted, y, z, rest
<1>10. CASE \E i \in from .. Len(b) - 1 : FoundFirst(b, from, s, TRUE, y, i)
  <2>1. PICK i \in from .. Len(b) - 1 : FoundFirst(b, from, s, TRUE, y, i)
    BY <1>10
  <2>2. /\ start(i) /\ NoneDecided(b, from, i, s, TRUE)
        /\ y = [kind |-> "Found", at |-> i,
                separator |-> check(Slice(b, i, Len(b)), s).separator]
    BY <2>1 DEF FoundFirst
  <2>3. i \in p .. Len(b) - 1
    <3>1. ~(i \in from .. p - 1)
      <4> HIDE DEF start, undecided
      <4> QED BY <1>7, <1>8, <2>2
    <3> QED BY <1>1, <3>1
  <2>4. i - ex \in p - ex .. (Len(b) - ex) - 1 /\ (i - ex) + ex = i
    BY <1>1, <2>3
  <2>5. PICK j \in p - ex .. (Len(b) - ex) - 1 : FoundFirst(rest, p - ex, s, TRUE, z, j)
    <3>1. ASSUME NoneDecided(rest, p - ex, Len(b) - ex, s, TRUE) PROVE FALSE
      <4>1. Candidate(rest, i - ex) => Undecided(check(Slice(rest, i - ex, Len(rest)), s), TRUE)
        BY <2>4, <3>1 DEF NoneDecided
      <4>2. undecided(i)
        BY <1>6, <2>4, <4>1
      <4> HIDE DEF start, undecided
      <4> QED BY <1>7, <2>2, <4>2
    <3> QED BY <1>5, <3>1
  <2>6. /\ start(j + ex) /\ NoneDecided(rest, p - ex, j, s, TRUE)
        /\ z = [kind |-> "Found", at |-> j,
                separator |-> check(Slice(b, j + ex, Len(b)), s).separator]
    BY <1>6, <2>5 DEF FoundFirst
  <2>7. j + ex \in p .. Len(b) - 1
    BY <1>6
  <2>8. ~(i < j + ex)
    <3>1. SUFFICES ASSUME i < j + ex PROVE FALSE
      OBVIOUS
    <3>2. i - ex \in p - ex .. j - 1
      BY <1>1, <2>3, <2>4, <2>7, <3>1
    <3>3. Candidate(rest, i - ex) => Undecided(check(Slice(rest, i - ex, Len(rest)), s), TRUE)
      BY <2>6, <3>2 DEF NoneDecided
    <3>4. undecided(i)
      BY <1>6, <2>4, <3>3
    <3> HIDE DEF start, undecided
    <3> QED BY <1>7, <2>2, <3>4
  <2>9. ~(j + ex < i)
    <3>1. SUFFICES ASSUME j + ex < i PROVE FALSE
      OBVIOUS
    <3>2. j + ex \in from .. i - 1
      BY <1>1, <2>3, <2>7, <3>1
    <3>3. undecided(j + ex)
      BY <2>2, <3>2 DEF NoneDecided
    <3> HIDE DEF start, undecided
    <3> QED BY <1>7, <2>6, <3>3
  <2>10. j + ex = i /\ j = i - ex
    BY <1>1, <2>3, <2>7, <2>8, <2>9
  <2>11. /\ y.kind = "Found" /\ y.at = i
         /\ y.separator = check(Slice(b, i, Len(b)), s).separator
    BY <2>2
  <2>12. z = [kind |-> "Found", at |-> y.at - ex, separator |-> y.separator]
    BY <2>6, <2>10, <2>11
  <2> QED BY <2>3, <2>11, <2>12 DEF Shifted, y, z, rest
<1> QED BY <1>4, <1>9, <1>10

\* What a read comes to when its search does, and rest is behind the prefix.
ReadAs(C, start, rest, at_end) ==
  IF start.kind # "Found" THEN [reader |-> C, record |-> <<>>]
  ELSE ReadMessage(C, start.separator, rest, at_end)

\* The reader left with a prefix of p bytes.
CappedReader(R, p, C) ==
  /\ C.buf = Slice(R.buf, Excess(p), Len(R.buf)) /\ C.buf \in Seq(Byte)
  /\ Len(C.buf) = Len(R.buf) - Excess(p)
  /\ C.searched = p - Excess(p) /\ C.searched \in 0 .. Len(C.buf)
  /\ C.prefix_truncated = (R.prefix_truncated \/ Excess(p) > 0)
  /\ C.dropped = R.dropped + Excess(p) /\ C.override = R.override
  /\ Slice(C.buf, C.searched, Len(C.buf)) = Slice(R.buf, p, Len(R.buf))
  /\ ReaderOK(C)

\* CapPrefix leaves that reader.
LEMMA CapPrefixIs ==
  ASSUME NEW R, ReaderOK(R), NEW p \in 0 .. Len(R.buf)
  PROVE  CappedReader(R, p, CapPrefix(R, p))
<1> DEFINE b == R.buf
           e == Excess(p)
           C == CapPrefix(R, p)
<1>1. /\ b \in Seq(Byte) /\ Len(b) \in Nat /\ R.prefix_truncated \in BOOLEAN
      /\ R.dropped \in Nat /\ R.override \in Byte \cup {None} /\ p \in Nat /\ p <= Len(b)
  BY DEF ReaderOK
<1>2. e \in Nat /\ e <= p
  <2>1. p \in Nat
    BY <1>1
  <2> QED BY <2>1, ExcessProperties
<1> HIDE DEF e
<1>b. e <= Len(b) /\ Len(b) <= Len(b)
  BY <1>1, <1>2
<1>3. /\ C.buf = Slice(b, e, Len(b)) /\ C.searched = p - e /\ C.dropped = R.dropped + e
      /\ C.prefix_truncated = (R.prefix_truncated \/ e > 0) /\ C.override = R.override
  BY DEF CapPrefix, Reader, e
<1> HIDE DEF C
<1>4. Slice(b, e, Len(b)) \in Seq(Byte) /\ Len(Slice(b, e, Len(b))) = Len(b) - e
  BY <1>1, <1>2, <1>b, ByteSlices, Zenon
<1>5. C.buf \in Seq(Byte) /\ Len(C.buf) = Len(b) - e
  BY <1>3, <1>4
<1>6. C.searched \in 0 .. Len(C.buf)
  BY <1>1, <1>2, <1>3, <1>5
<1>7. Slice(C.buf, C.searched, Len(C.buf)) = Slice(b, p, Len(b))
  <2>1. /\ p - e \in Nat /\ Len(b) - e \in Nat /\ p - e <= Len(b) - e
        /\ Len(b) - e <= Len(b) - e /\ e + (p - e) = p /\ e + (Len(b) - e) = Len(b)
    BY <1>1, <1>2
  <2>a. \A i, j \in Nat : i <= j /\ j <= Len(b) - e =>
           Slice(Slice(b, e, Len(b)), i, j) = Slice(b, e + i, e + j)
    <3>1. b \in Seq(Byte) /\ e \in Nat /\ Len(b) \in Nat /\ e <= Len(b) /\ Len(b) <= Len(b)
      BY <1>1, <1>2, <1>b
    <3> HIDE DEF b
    <3> QED BY <3>1, SliceOfSlice, SMTT(30)
  <2>2. Slice(Slice(b, e, Len(b)), p - e, Len(b) - e) = Slice(b, e + (p - e), e + (Len(b) - e))
    BY <2>1, <2>a, Zenon
  <2> QED BY <1>3, <1>5, <2>1, <2>2
<1>8. ReaderOK(C)
  <2>1. C.dropped \in Nat
    BY <1>1, <1>2, <1>3
  <2>2. C.prefix_truncated \in BOOLEAN
    BY <1>3
  <2> QED BY <1>1, <1>3, <1>5, <1>6, <2>1, <2>2 DEF ReaderOK
<1> QED BY <1>3, <1>5, <1>6, <1>7, <1>8 DEF CappedReader, e, C

\* read caps the prefix and then reads the message.
LEMMA ReadIs ==
  ASSUME NEW R, ReaderOK(R), NEW at_end, NEW start, start = Sought(R, at_end),
         NEW p \in 0 .. Len(R.buf), p = PrefixLen(R.buf, start)
  PROVE  read(R, at_end)
           = ReadAs(CapPrefix(R, p), start, Slice(R.buf, p, Len(R.buf)), at_end)
<1> DEFINE C == CapPrefix(R, p)
           rest == Slice(C.buf, C.searched, Len(C.buf))
<1>1. read(R, at_end) = ReadPrefix(R, start, at_end)
  BY Zenon DEF read, Sought
<1>2. ReadPrefix(R, start, at_end) = ReadFrom(C, start, at_end)
  BY Zenon DEF ReadPrefix
<1>3. ReadFrom(C, start, at_end) = ReadAs(C, start, rest, at_end)
  BY Zenon DEF ReadFrom, ReadAs
<1>4. rest = Slice(R.buf, p, Len(R.buf))
  <2>1. CappedReader(R, p, C)
    BY CapPrefixIs
  <2> HIDE DEF C
  <2> QED BY <2>1 DEF CappedReader
<1> QED BY <1>1, <1>2, <1>3, <1>4

\* A reader, put together.
LEMMA CapPrefixBy ==
  ASSUME NEW R, NEW p
  PROVE  CapPrefix(R, p)
           = Reader(Slice(R.buf, Excess(p), Len(R.buf)), p - Excess(p),
                    R.prefix_truncated \/ Excess(p) > 0, R.dropped + Excess(p), R.override)
BY Zenon DEF CapPrefix

\* To cap a prefix, and later a longer one, is to cap that one.
LEMMA CapTwice ==
  ASSUME NEW R, ReaderOK(R), NEW p \in 0 .. Len(R.buf), NEW q \in p .. Len(R.buf)
  PROVE  CapPrefix(CapPrefix(R, p), q - Excess(p)) = CapPrefix(R, q)
<1> DEFINE b == R.buf
           C == CapPrefix(R, p)
           n == q - Excess(p)
           e == Excess(p)
           g == Excess(q)
           h == Excess(n)
<1>1. /\ b \in Seq(Byte) /\ Len(b) \in Nat /\ R.prefix_truncated \in BOOLEAN
      /\ R.dropped \in Nat /\ p \in Nat /\ q \in Nat /\ p <= q /\ q <= Len(b)
  BY DEF ReaderOK
<1>2. e \in Nat /\ e <= p /\ n \in Nat
  <2>1. e \in Nat /\ e <= p
    BY <1>1, ExcessProperties
  <2> HIDE DEF e
  <2>2. n = q - e
    BY DEF e
  <2> QED BY <1>1, <2>1, <2>2
<1>3. e + h = g /\ h \in Nat /\ (e > 0 => g > 0) /\ (h > 0 => g > 0) /\ (g > 0 => e > 0 \/ h > 0)
  <2>1. n = q - e
    OBVIOUS
  <2> HIDE DEF n
  <2> QED BY <1>1, <1>2, <2>1, Limits DEF Excess
<1>4. CappedReader(R, p, C)
  BY CapPrefixIs
<1> HIDE DEF C
<1>5. CapPrefix(C, n)
        = Reader(Slice(C.buf, h, Len(C.buf)), n - h, C.prefix_truncated \/ h > 0,
                 C.dropped + h, C.override)
  BY CapPrefixBy
<1>6. CapPrefix(R, q)
        = Reader(Slice(b, g, Len(b)), q - g, R.prefix_truncated \/ g > 0,
                 R.dropped + g, R.override)
  BY CapPrefixBy
<1>7. /\ C.buf = Slice(b, e, Len(b)) /\ Len(C.buf) = Len(b) - e
      /\ C.prefix_truncated = (R.prefix_truncated \/ e > 0)
      /\ C.dropped = R.dropped + e /\ C.override = R.override
  BY <1>4 DEF CappedReader
<1>8. n = q - e
  OBVIOUS
<1>a. g <= q
  BY <1>1, ExcessProperties
<1> HIDE DEF n, e, g, h
<1>9. Slice(C.buf, h, Len(C.buf)) = Slice(b, g, Len(b))
  <2>1. /\ h <= Len(b) - e /\ Len(b) - e \in Nat /\ e <= Len(b) /\ Len(b) <= Len(b)
        /\ Len(b) - e <= Len(b) - e /\ e + h = g /\ e + (Len(b) - e) = Len(b)
    BY <1>1, <1>2, <1>3, <1>a
  <2>a. \A i, j \in Nat : i <= j /\ j <= Len(b) - e =>
           Slice(Slice(b, e, Len(b)), i, j) = Slice(b, e + i, e + j)
    <3>1. b \in Seq(Byte) /\ e \in Nat /\ Len(b) \in Nat /\ e <= Len(b) /\ Len(b) <= Len(b)
      BY <1>1, <1>2, <2>1
    <3> HIDE DEF b
    <3> QED BY <3>1, SliceOfSlice, ZenonT(40)
  <2>2. Slice(Slice(b, e, Len(b)), h, Len(b) - e) = Slice(b, e + h, e + (Len(b) - e))
    BY <1>3, <2>1, <2>a, Zenon
  <2> QED BY <1>7, <2>1, <2>2
<1>10. n - h = q - g /\ C.dropped + h = R.dropped + g
  <2>1. q \in Nat /\ e \in Nat /\ h \in Nat /\ g = e + h /\ n = q - e
    BY <1>1, <1>2, <1>3, <1>8
  <2>2. n - h = q - g
    BY <2>1
  <2>3. R.dropped \in Nat /\ C.dropped = R.dropped + e
    BY <1>1, <1>7
  <2>4. C.dropped + h = R.dropped + g
    BY <2>1, <2>3
  <2> QED BY <2>2, <2>4
<1>11. (C.prefix_truncated \/ h > 0) = (R.prefix_truncated \/ g > 0)
  BY <1>1, <1>3, <1>7
<1>12. CapPrefix(C, n) = CapPrefix(R, q)
  BY <1>5, <1>6, <1>7, <1>9, <1>10, <1>11, Zenon
<1> QED BY <1>12 DEF C, n, e

\* A prefix that was capped is searched no further back: the read that goes on
\* from it comes to what one of the whole buffer does.
LEMMA ReadResumes ==
  ASSUME NEW R, ReaderOK(R), NEW p \in R.searched .. Len(R.buf),
         NoneDecided(R.buf, R.searched, p, R.override, TRUE)
  PROVE  read(CapPrefix(R, p), TRUE) = read(R, TRUE)
<1> DEFINE b == R.buf
           ex == Excess(p)
           C == CapPrefix(R, p)
           y == Sought(R, TRUE)
           z == Sought(C, TRUE)
           q == PrefixLen(b, y)
           n == PrefixLen(C.buf, z)
<1>1. /\ b \in Seq(Byte) /\ Len(b) \in Nat /\ R.searched \in Nat /\ p \in Nat /\ p <= Len(b)
      /\ R.searched <= p
  BY DEF ReaderOK
<1>2. ex \in Nat /\ ex <= p /\ (ex > 0 => ex < p)
  <2>1. p \in Nat
    BY <1>1
  <2> QED BY <2>1, ExcessProperties, Limits
<1>3. CappedReader(R, p, C)
  BY <1>1, CapPrefixIs
<1> HIDE DEF C
<1>4. /\ C.buf = Slice(b, ex, Len(b)) /\ Len(C.buf) = Len(b) - ex
      /\ C.searched = p - ex /\ C.override = R.override /\ ReaderOK(C) /\ C.buf \in Seq(Byte)
  BY <1>3 DEF CappedReader
<1>5. Shifted(b, y, z, ex, p)
  <2>1. Shifted(b, find_start(b, R.searched, Len(b), R.override, TRUE),
                find_start(Slice(b, ex, Len(b)), p - ex, Len(b) - ex, R.override, TRUE), ex, p)
    <3>1. ex \in 0 .. p /\ p \in R.searched .. Len(b)
      BY <1>1, <1>2
    <3> HIDE DEF ex
    <3> QED BY <1>1, <1>2, <3>1, SearchResumes
  <2> QED BY <1>4, <2>1, Zenon DEF Sought
<1> HIDE DEF y, z, ex
<1>6. /\ q \in p .. Len(b) /\ n = q - ex
      /\ (z.kind = "Found" <=> y.kind = "Found")
      /\ y.kind = "Found" => z.separator = y.separator
  <2>1. CASE y = [kind |-> "NotFound"] /\ z = [kind |-> "NotFound"]
    BY <1>1, <1>4, <2>1 DEF PrefixLen
  <2>2. CASE /\ y.kind = "Found" /\ y.at \in p .. Len(b) - 1
             /\ z = [kind |-> "Found", at |-> y.at - ex, separator |-> y.separator]
    <3>1. z.kind = "Found" /\ z.at = y.at - ex /\ z.separator = y.separator
      BY <2>2
    <3> QED BY <1>1, <2>2, <3>1 DEF PrefixLen
  <2> QED BY <1>5, <2>1, <2>2 DEF Shifted
<1> HIDE DEF q, n
<1>7. read(R, TRUE) = ReadAs(CapPrefix(R, q), y, Slice(b, q, Len(b)), TRUE)
  <2>1. q \in 0 .. Len(R.buf)
    BY <1>1, <1>6
  <2> QED BY <2>1, ReadIs DEF y, q
<1>8. read(C, TRUE) = ReadAs(CapPrefix(C, n), z, Slice(C.buf, n, Len(C.buf)), TRUE)
  <2>1. n \in 0 .. Len(C.buf)
    BY <1>1, <1>2, <1>4, <1>6
  <2> QED BY <1>4, <2>1, ReadIs DEF z, n
<1>9. CapPrefix(C, n) = CapPrefix(R, q)
  <2>1. p \in 0 .. Len(R.buf)
    BY <1>1
  <2> QED BY <1>6, <2>1, CapTwice DEF C, ex
<1>10. Slice(C.buf, n, Len(C.buf)) = Slice(b, q, Len(b))
  <2>1. /\ n \in Nat /\ Len(b) - ex \in Nat /\ n <= Len(b) - ex /\ ex <= Len(b)
        /\ Len(b) <= Len(b)
        /\ Len(b) - ex <= Len(b) - ex /\ ex + n = q /\ ex + (Len(b) - ex) = Len(b)
    BY <1>1, <1>2, <1>6
  <2>a. \A i, j \in Nat : i <= j /\ j <= Len(b) - ex =>
           Slice(Slice(b, ex, Len(b)), i, j) = Slice(b, ex + i, ex + j)
    <3>1. b \in Seq(Byte) /\ ex \in Nat /\ Len(b) \in Nat /\ ex <= Len(b) /\ Len(b) <= Len(b)
      BY <1>1, <1>2, <2>1
    <3> HIDE DEF b
    <3> QED BY <3>1, SliceOfSlice, ZenonT(40)
  <2>2. Slice(Slice(b, ex, Len(b)), n, Len(b) - ex) = Slice(b, ex + n, ex + (Len(b) - ex))
    BY <2>1, <2>a, Zenon
  <2> QED BY <1>4, <2>1, <2>2
<1>11. \A D, rest : ReadAs(D, z, rest, TRUE) = ReadAs(D, y, rest, TRUE)
  BY <1>6, Zenon DEF ReadAs
<1>12. read(C, TRUE) = read(R, TRUE)
  BY <1>7, <1>8, <1>9, <1>10, <1>11, Zenon
<1> QED BY <1>12 DEF C

-----------------------------------------------------------------------------
(* The records of a log read at once. *)

\* The readers that RecordsOf is defined for, and its function of them.
ReadersOf(s) ==
  [buf : Seq(Byte), searched : Nat, prefix_truncated : BOOLEAN, dropped : Nat,
   override : {s}]

RecordsFrom(s) ==
  CHOOSE f : f = [reader \in ReadersOf(s) |->
                    LET result == read(reader, TRUE)
                    IN  IF result.record = <<>> THEN <<>>
                        ELSE result.record \o f[result.reader]]

\* RecordsOf is that function, of a reader with all of the log.
LEMMA RecordsOfIs ==
  ASSUME NEW l
  PROVE  RecordsOf(l) = RecordsFrom(l.separator)[Reader(l.text, 0, FALSE, 0, l.separator)]
BY Zenon DEF RecordsOf, RecordsFrom, ReadersOf

\* A reader that has searched its buffer reads nothing.
LEMMA NothingLeft ==
  ASSUME NEW s, NEW R \in ReadersOf(s), R.searched >= Len(R.buf)
  PROVE  read(R, TRUE).record = <<>>
<1> DEFINE x == Sought(R, TRUE)
           C == CapPrefix(R, PrefixLen(R.buf, x))
<1>1. R.searched \in Nat /\ Len(R.buf) \in Nat /\ Len(R.buf) <= R.searched
  BY DEF ReadersOf
<1>2. find_start(R.buf, R.searched, Len(R.buf), R.override, TRUE).kind = "NotFound"
  <2> DEFINE u == TRUE
  <2>1. u \in BOOLEAN
    OBVIOUS
  <2> HIDE DEF u
  <2>2. find_start(R.buf, R.searched, Len(R.buf), R.override, u).kind = "NotFound"
    BY <1>1, <2>1, FindNothing
  <2> QED BY <2>2 DEF u
<1>3. x.kind # "Found"
  BY <1>2 DEF Sought
<1>4. read(R, TRUE) = ReadFrom(C, x, TRUE)
  BY Zenon DEF read, Sought, ReadPrefix
<1>5. ReadFrom(C, x, TRUE) = [reader |-> C, record |-> <<>>]
  BY <1>3, Zenon DEF ReadFrom
<1> HIDE DEF x, C
<1> DEFINE X == read(R, TRUE)
<1>6. X = [reader |-> C, record |-> <<>>]
  BY <1>4, <1>5, Zenon
<1> HIDE DEF X
<1>7. X.record = <<>>
  BY <1>6
<1> QED BY <1>7 DEF X

\* Each record that is read leaves a reader of fewer bytes.
Taken(s, R, X) ==
  /\ X.record \in Seq(LogRecord)
  /\ X.record # <<>> => X.reader \in ReadersOf(s) /\ Len(X.reader.buf) < Len(R.buf)

\* What ReadCases says of a read says that.
LEMMA TakenIs ==
  ASSUME NEW R, ReaderOK(R), NEW s \in Byte \cup {None}, R.override = s, NEW at_end, NEW X,
         TakesNone(R, at_end, X) \/ TakesOne(R, at_end, X)
  PROVE  Taken(s, R, X)
<1>1. /\ R.buf \in Seq(Byte) /\ R.searched \in Nat /\ R.prefix_truncated \in BOOLEAN
      /\ R.dropped \in Nat /\ R.override = s /\ Len(R.buf) \in Nat
  BY DEF ReaderOK
<1>3. CASE TakesNone(R, at_end, X)
  <2>1. X.record = <<>>
    BY <1>3 DEF TakesNone
  <2>2. X.record \in Seq(LogRecord)
    BY <2>1
  <2> QED BY <2>1, <2>2 DEF Taken
<1>4. CASE TakesOne(R, at_end, X)
  <2>1. PICK p \in R.searched .. Len(R.buf), len \in Nat, consumed \in Nat,
             message \in Seq(Byte), diagnostics \in Seq(LogDiagnostic), separator \in Byte :
          /\ p = PrefixLen(R.buf, Sought(R, at_end)) /\ Sought(R, at_end).kind = "Found"
          /\ 1 <= len /\ len <= consumed /\ p + consumed <= Len(R.buf)
          /\ X = [reader |-> Reader(Slice(R.buf, p + consumed, Len(R.buf)), 0, FALSE,
                                    R.dropped + (p + consumed), R.override),
                  record |-> <<Record(Slice(R.buf, Excess(p), p), message, diagnostics,
                                      R.dropped + p, len, consumed, separator)>>]
          /\ message \in {Slice(R.buf, p, p + len), Restored(Slice(R.buf, p, p + len))}
          /\ Slice(R.buf, p + len, p + consumed) \in {<<>>, <<LF>>, <<CR, LF>>}
          /\ (\E i \in 1 .. Len(diagnostics) : diagnostics[i] = "PrefixTruncated")
               <=> (R.prefix_truncated \/ Excess(p) > 0)
    BY <1>4, Zenon DEF TakesOne
  <2> DEFINE k == p + consumed
             buf1 == Slice(R.buf, k, Len(R.buf))
             prefix == Slice(R.buf, Excess(p), p)
  <2>2. k \in Nat /\ k >= 1 /\ k <= Len(R.buf) /\ Len(R.buf) <= Len(R.buf) /\ p \in Nat
        /\ p <= Len(R.buf)
    <3>1. /\ p \in R.searched .. Len(R.buf) /\ len \in Nat /\ consumed \in Nat
          /\ 1 <= len /\ len <= consumed /\ p + consumed <= Len(R.buf)
      BY <2>1, Zenon
    <3> QED BY <1>1, <3>1
  <2>3. buf1 \in Seq(Byte) /\ Len(buf1) = Len(R.buf) - k
    <3> HIDE DEF k
    <3> QED BY <1>1, <2>2, ByteSlices, Zenon
  <2>4. Excess(p) \in Nat /\ Excess(p) <= p
    BY <2>2, ExcessProperties
  <2>5. prefix \in Seq(Byte)
    BY <1>1, <2>2, <2>4, ByteSlices, Zenon
  <2>6. /\ X.reader = Reader(buf1, 0, FALSE, R.dropped + k, R.override)
        /\ X.record = <<Record(prefix, message, diagnostics, R.dropped + p, len, consumed,
                               separator)>>
    BY <2>1
  <2> HIDE DEF k, buf1, prefix
  <2>7. X.reader \in ReadersOf(s) /\ Len(X.reader.buf) < Len(R.buf)
    BY <1>1, <2>2, <2>3, <2>6, SMTT(30) DEF ReadersOf, Reader
  <2>8. Record(prefix, message, diagnostics, R.dropped + p, len, consumed, separator)
          \in LogRecord
    <3> DEFINE from == R.dropped + p
    <3>1. from \in Nat /\ from + len \in Nat /\ from + consumed \in Nat
      <4>1. R.dropped \in Nat /\ p \in Nat /\ len \in Nat /\ consumed \in Nat
        BY <1>1, <2>2
      <4> DEFINE d == R.dropped
      <4> HIDE DEF d
      <4>2. d + p \in Nat /\ (d + p) + len \in Nat /\ (d + p) + consumed \in Nat
        BY <4>1, SMTT(30) DEF d
      <4> QED BY <4>2 DEF d
    <3> HIDE DEF from
    <3>2. Record(prefix, message, diagnostics, from, len, consumed, separator) \in LogRecord
      BY <2>1, <2>5, <3>1 DEF LogRecord, Record
    <3> QED BY <3>2 DEF from
  <2>9. X.record \in Seq(LogRecord)
    BY <2>6, <2>8
  <2> QED BY <2>7, <2>9 DEF Taken
<1> QED BY <1>3, <1>4

\* A read of all that is left does so.
LEMMA RecordTaken ==
  ASSUME NEW s \in Byte \cup {None}, NEW R \in ReadersOf(s)
  PROVE  Taken(s, R, read(R, TRUE))
<1> DEFINE X == read(R, TRUE)
<1>1. /\ R.buf \in Seq(Byte) /\ R.searched \in Nat /\ R.prefix_truncated \in BOOLEAN
      /\ R.dropped \in Nat /\ R.override = s /\ Len(R.buf) \in Nat
  BY DEF ReadersOf
<1>2. CASE R.searched >= Len(R.buf)
  <2>1. X.record = <<>>
    BY <1>2, NothingLeft, Zenon
  <2> HIDE DEF X
  <2>2. X.record \in Seq(LogRecord)
    BY <2>1
  <2> QED BY <2>1, <2>2 DEF X, Taken
<1>3. CASE R.searched <= Len(R.buf)
  <2>1. ReaderOK(R)
    BY <1>1, <1>3 DEF ReaderOK
  <2>2. TakesNone(R, TRUE, X) \/ TakesOne(R, TRUE, X)
    <3> DEFINE u == TRUE
    <3>1. u \in BOOLEAN
      OBVIOUS
    <3> HIDE DEF u
    <3>2. TakesNone(R, u, read(R, u)) \/ TakesOne(R, u, read(R, u))
      BY <2>1, <3>1, ReadCases
    <3> QED BY <3>2 DEF u
  <2> HIDE DEF X
  <2>3. R.override = s /\ s \in Byte \cup {None}
    BY <1>1
  <2>4. Taken(s, R, X)
    BY <2>1, <2>2, <2>3, TakenIs
  <2> QED BY <2>4 DEF X
<1>4. R.searched >= Len(R.buf) \/ R.searched <= Len(R.buf)
  BY <1>1
<1> QED BY <1>2, <1>3, <1>4, Zenon

\* The records behind a reader are the one it reads next and those behind the
\* reader after it.
RecordsFollow(s, R) ==
  LET X == read(R, TRUE)
  IN  RecordsFrom(s)[R] = IF X.record = <<>> THEN <<>>
                          ELSE X.record \o RecordsFrom(s)[X.reader]

\* The function that RecordsFrom chooses exists, and is of records.
LEMMA RecordsFromIs ==
  ASSUME NEW s \in Byte \cup {None}
  PROVE  \A R \in ReadersOf(s) : RecordsFollow(s, R) /\ RecordsFrom(s)[R] \in Seq(LogRecord)
<1> DEFINE S == ReadersOf(s)
           rec == [r \in S |-> read(r, TRUE).record]
           next == [r \in S |-> read(r, TRUE).reader]
           size == [r \in S |-> Len(r.buf)]
           F == RecordsFrom(s)
<1>1. \A r \in S : size[r] \in Nat
  BY DEF ReadersOf
<1>2. \A r \in S : /\ rec[r] \in Seq(LogRecord)
                   /\ rec[r] # <<>> => next[r] \in S /\ size[next[r]] < size[r]
  BY RecordTaken, Zenon DEF Taken
<1>3. \A f : Chained(f, S, rec, next) <=>
               f = [reader \in S |->
                      LET result == read(reader, TRUE)
                      IN  IF result.record = <<>> THEN <<>>
                          ELSE result.record \o f[result.reader]]
  <2>1. TAKE f
  <2>2. [r \in S |-> IF rec[r] = <<>> THEN <<>> ELSE rec[r] \o f[next[r]]]
          = [reader \in S |->
                      LET result == read(reader, TRUE)
                      IN  IF result.record = <<>> THEN <<>>
                          ELSE result.record \o f[result.reader]]
    <3> HIDE DEF S
    <3> QED BY Zenon
  <2> QED BY <2>2, Zenon DEF Chained
<1>4. \E f : Chained(f, S, rec, next)
  <2>1. Shrinks(S, rec, next, size)
    <3> HIDE DEF S, rec, next, size
    <3> QED BY <1>1, <1>2, Zenon DEF Shrinks
  <2> HIDE DEF S, rec, next, size
  <2> QED BY <2>1, ChainExists
<1>5. Chained(F, S, rec, next)
  <2>1. \E f : f = [reader \in S |->
                      LET result == read(reader, TRUE)
                      IN  IF result.record = <<>> THEN <<>>
                          ELSE result.record \o f[result.reader]]
    <3> HIDE DEF S, rec, next
    <3> QED BY <1>3, <1>4, Zenon
  <2>2. F = [reader \in S |->
                      LET result == read(reader, TRUE)
                      IN  IF result.record = <<>> THEN <<>>
                          ELSE result.record \o F[result.reader]]
    BY <2>1, Zenon DEF RecordsFrom
  <2> HIDE DEF S, rec, next, F
  <2> QED BY <1>3, <2>2, Zenon
<1>6. ASSUME NEW R \in S
      PROVE  RecordsFollow(s, R) /\ F[R] \in Seq(LogRecord)
  <2>1. F[R] = IF rec[R] = <<>> THEN <<>> ELSE rec[R] \o F[next[R]]
    <3> HIDE DEF S, rec, next, F
    <3> QED BY <1>5, Zenon DEF Chained
  <2>2. rec[R] = read(R, TRUE).record /\ next[R] = read(R, TRUE).reader
    <3> HIDE DEF S
    <3> QED OBVIOUS
  <2>3. RecordsFollow(s, R)
    <3> HIDE DEF S, rec, next
    <3> QED BY <2>1, <2>2, Zenon DEF RecordsFollow
  <2>4. Shrinks(S, rec, next, size) /\ \A r \in S : rec[r] \in Seq(LogRecord)
    <3> HIDE DEF S, rec, next, size
    <3> QED BY <1>1, <1>2, Zenon DEF Shrinks
  <2>5. F[R] \in Seq(LogRecord)
    <3> HIDE DEF S, rec, next, F, size
    <3> QED BY <1>5, <2>4, ChainType
  <2> QED BY <2>3, <2>5
<1> QED BY <1>6

-----------------------------------------------------------------------------
(* A read before all of the log is fed, and one of all of it. *)

\* L is the reader R with the rest of the log behind its buffer.
Ahead(R, L) ==
  /\ ReaderOK(R) /\ ReaderOK(L) /\ Begins(R.buf, L.buf)
  /\ L.searched = R.searched /\ L.prefix_truncated = R.prefix_truncated
  /\ L.dropped = R.dropped /\ L.override = R.override

\* How far a read that cannot wait for more has searched.
SearchedTo(R, p) == p = PrefixLen(R.buf, Sought(R, FALSE))

\* What R knows of its prefix is so of the whole log.
LEMMA PrefixAhead ==
  ASSUME NEW R, NEW L, Ahead(R, L), NEW p \in R.searched .. Len(R.buf), SearchedTo(R, p)
  PROVE  NoneDecided(L.buf, L.searched, p, L.override, TRUE)
<1> DEFINE a == R.buf
           b == L.buf
           s == R.override
<1>1. /\ a \in Seq(Byte) /\ b \in Seq(Byte) /\ Begins(a, b) /\ Len(a) \in Nat
      /\ s \in Byte \cup {None} /\ R.searched \in Nat /\ L.searched = R.searched
      /\ L.override = s /\ Len(b) \in Nat /\ Len(a) <= Len(b)
  BY DEF Ahead, ReaderOK, Begins
<1>p. p \in Nat /\ p <= Len(a)
  BY <1>1
<1>2. \A i \in R.searched .. p - 1 :
         Candidate(a, i) => Undecided(check(Slice(a, i, Len(a)), s), FALSE)
  <2> DEFINE u == FALSE
  <2>1. u \in BOOLEAN
    OBVIOUS
  <2>2. p = PrefixLen(a, find_start(a, R.searched, Len(a), s, u))
    BY Zenon DEF Sought, SearchedTo
  <2> HIDE DEF u, a, s
  <2>3. \A i \in R.searched .. p - 1 :
           Candidate(a, i) => Undecided(check(Slice(a, i, Len(a)), s), u)
    BY <1>1, <2>1, <2>2, FindStartDecides
  <2> QED BY <2>3 DEF u
<1> HIDE DEF a, b, s
<1>3. ASSUME NEW i \in R.searched .. p - 1, Candidate(b, i)
      PROVE  Undecided(check(Slice(b, i, Len(b)), s), TRUE)
  <2>1. i \in Nat /\ i < Len(a) /\ i <= Len(a)
    BY <1>1, <1>p
  <2>2. Candidate(a, i)
    BY <1>1, <1>3, <2>1, SMTT(30) DEF Candidate, Begins, At
  <2> DEFINE c == Slice(a, i, Len(a))
             d == Slice(b, i, Len(b))
  <2>3. Undecided(check(c, s), FALSE)
    BY <1>2, <2>2
  <2>4. c \in Seq(Byte) /\ d \in Seq(Byte) /\ Begins(c, d)
    BY <1>1, <2>1, BeginsSlice
  <2> HIDE DEF c, d
  <2>5. check(c, s).kind # "Start" /\ check(c, s).kind # "Pending"
    BY <2>3 DEF Undecided
  <2>6. check(c, s) # Pending
    BY <2>5 DEF Pending
  <2>7. check(d, s) = check(c, s)
    BY <1>1, <2>4, <2>6, CheckStable
  <2>8. Undecided(check(d, s), TRUE)
    BY <2>5, <2>7 DEF Undecided
  <2> QED BY <2>8 DEF d
<1>4. NoneDecided(b, R.searched, p, s, TRUE)
  BY <1>3 DEF NoneDecided
<1> QED BY <1>1, <1>4 DEF b

\* A start that is found is the one of the whole log.
LEMMA SoughtAhead ==
  ASSUME NEW R, NEW L, Ahead(R, L), Sought(R, FALSE).kind = "Found"
  PROVE  /\ Sought(L, TRUE) = Sought(R, FALSE)
         /\ Sought(R, FALSE).at \in R.searched .. Len(R.buf) - 1
         /\ At(R.buf, Sought(R, FALSE).at) = 56
         /\ LET start == check(Slice(R.buf, Sought(R, FALSE).at, Len(R.buf)), R.override)
            IN  start.kind = "Start" /\ start.separator = Sought(R, FALSE).separator
<1> DEFINE a == R.buf
           b == L.buf
           s == R.override
           from == R.searched
           x == Sought(R, FALSE)
<1>1. /\ a \in Seq(Byte) /\ b \in Seq(Byte) /\ Begins(a, b) /\ Len(a) \in Nat
      /\ s \in Byte \cup {None} /\ from \in Nat /\ L.searched = from
      /\ L.override = s /\ Len(b) \in Nat /\ Len(a) <= Len(b)
  BY DEF Ahead, ReaderOK, Begins
<1>2. x = find_start(a, from, Len(a), s, FALSE)
  BY Zenon DEF Sought
<1>3. Sought(L, TRUE) = find_start(b, from, Len(b), s, TRUE)
  BY <1>1, Zenon DEF Sought
<1> HIDE DEF a, b, s, from, x
<1>4. SearchIs(a, from, Len(a), s, FALSE, x)
  <2> DEFINE u == FALSE
  <2>1. u \in BOOLEAN /\ x = find_start(a, from, Len(a), s, u)
    BY <1>2
  <2> HIDE DEF u
  <2>2. SearchIs(a, from, Len(a), s, u, x)
    BY <1>1, <2>1, FindStartIs
  <2> QED BY <2>2 DEF u
<1>5. x.kind = "Found"
  BY DEF x
<1>6. PICK i \in from .. Len(a) - 1 : FoundFirst(a, from, s, FALSE, x, i)
  <2>1. x # [kind |-> "NotFound"] /\ x.kind # "Pending"
    BY <1>5
  <2> QED BY <1>4, <2>1, Zenon DEF SearchIs
<1>7. /\ x = [kind |-> "Found", at |-> i, separator |-> check(Slice(a, i, Len(a)), s).separator]
      /\ Candidate(a, i) /\ check(Slice(a, i, Len(a)), s).kind = "Start"
  BY <1>6, Zenon DEF FoundFirst
<1>8. x.at = i /\ x.separator = check(Slice(a, i, Len(a)), s).separator
  BY <1>7
<1>9. find_start(b, from, Len(b), s, TRUE) = x
  <2>1. SearchDecides(a, from, Len(a), Len(b), s)
    <3>1. x.kind # "Pending" /\ x.kind = "Found" /\ x.at < Len(b)
      BY <1>1, <1>5, <1>8
    <3> QED BY <1>2, <3>1, Zenon DEF SearchDecides
  <2>2. Len(a) <= Len(a)
    BY <1>1
  <2>3. SearchAgrees(a, b, from, Len(a), Len(b), s)
    BY <1>1, <2>1, <2>2, FindStartSame
  <2> QED BY <1>2, <2>3, Zenon DEF SearchAgrees
<1>a. x.at \in from .. Len(a) - 1 /\ At(a, x.at) = 56
  BY <1>7, <1>8 DEF Candidate
<1>b. LET start == check(Slice(a, x.at, Len(a)), s)
      IN  start.kind = "Start" /\ start.separator = x.separator
  BY <1>7, <1>8, Zenon
<1> QED BY <1>3, <1>9, <1>a, <1>b, Zenon DEF a, b, s, from, x

\* What a reader R returns that takes the message, of a prefix of p bytes, that
\* ends at x.
TakenAt(R, p, text, separator, x) ==
  [reader |-> Reader(Slice(R.buf, p + x.consumed, Len(R.buf)), 0, FALSE,
                     R.dropped + (p + x.consumed), R.override),
   record |-> <<Record(Slice(R.buf, Excess(p), p), text,
                       When(R.prefix_truncated \/ Excess(p) > 0, "PrefixTruncated")
                         \o diagnose(text, tokenize_fields(text, separator), separator,
                                     x.truncated),
                       R.dropped + p, x.len, x.consumed, separator)>>]

\* TakeRecord returns that.
LEMMA TakeIs ==
  ASSUME NEW R, ReaderOK(R), NEW p \in 0 .. Len(R.buf), NEW text, NEW separator, NEW x,
         x.consumed \in Nat, p + x.consumed <= Len(R.buf)
  PROVE  TakeRecord(CapPrefix(R, p), text, separator, x) = TakenAt(R, p, text, separator, x)
<1> DEFINE b == R.buf
           d == R.dropped
           n == x.consumed
           e == Excess(p)
           C == CapPrefix(R, p)
           consumed == C.searched + n
<1>1. /\ b \in Seq(Byte) /\ Len(b) \in Nat /\ d \in Nat /\ p \in Nat /\ p <= Len(b)
      /\ n \in Nat /\ p + n <= Len(b)
  BY DEF ReaderOK
<1>2. e \in Nat /\ e <= p
  BY <1>1, ExcessProperties
<1>3. CappedReader(R, p, C)
  BY CapPrefixIs
<1> HIDE DEF C
<1>4. /\ C.buf = Slice(b, e, Len(b)) /\ Len(C.buf) = Len(b) - e /\ C.searched = p - e
      /\ C.prefix_truncated = (R.prefix_truncated \/ e > 0)
      /\ C.dropped = d + e /\ C.override = R.override
  BY <1>3 DEF CappedReader
<1> HIDE DEF b, d, n, e
<1>5. \A i, j \in Nat : i <= j /\ j <= Len(b) - e =>
         Slice(Slice(b, e, Len(b)), i, j) = Slice(b, e + i, e + j)
  <2>1. b \in Seq(Byte) /\ e \in Nat /\ Len(b) \in Nat /\ e <= Len(b) /\ Len(b) <= Len(b)
    BY <1>1, <1>2
  <2> QED BY <2>1, SliceOfSlice, SMTT(30)
<1>6. /\ consumed \in Nat /\ consumed <= Len(b) - e /\ Len(b) - e \in Nat
      /\ Len(b) - e <= Len(b) - e /\ e + consumed = p + n /\ e + (Len(b) - e) = Len(b)
      /\ C.dropped + consumed = d + (p + n) /\ C.dropped + C.searched = d + p
  <2>1. consumed = (p - e) + n
    BY <1>4
  <2> HIDE DEF consumed
  <2>2. /\ consumed \in Nat /\ consumed <= Len(b) - e /\ Len(b) - e \in Nat
        /\ Len(b) - e <= Len(b) - e /\ e + consumed = p + n /\ e + (Len(b) - e) = Len(b)
    BY <1>1, <1>2, <2>1
  <2>3. (d + e) + consumed = d + (p + n) /\ (d + e) + (p - e) = d + p
    BY <1>1, <1>2, <2>1
  <2> QED BY <1>4, <2>2, <2>3
<1>7. TakeRecord(C, text, separator, x)
        = [reader |-> Reader(Slice(C.buf, consumed, Len(C.buf)), 0, FALSE,
                             C.dropped + consumed, C.override),
           record |-> <<Record(Slice(C.buf, 0, C.searched), text,
                               When(C.prefix_truncated, "PrefixTruncated")
                                 \o diagnose(text, tokenize_fields(text, separator), separator,
                                             x.truncated),
                               C.dropped + C.searched, x.len, n, separator)>>]
  BY Zenon DEF TakeRecord, n
<1>8. Slice(C.buf, consumed, Len(C.buf)) = Slice(b, p + n, Len(b))
  <2> HIDE DEF consumed
  <2>1. Slice(Slice(b, e, Len(b)), consumed, Len(b) - e) = Slice(b, e + consumed, e + (Len(b) - e))
    BY <1>5, <1>6, Zenon
  <2> QED BY <1>4, <1>6, <2>1
<1>9. Slice(C.buf, 0, C.searched) = Slice(b, e, p)
  <2>1. /\ 0 \in Nat /\ p - e \in Nat /\ 0 <= p - e /\ p - e <= Len(b) - e
        /\ e + 0 = e /\ e + (p - e) = p
    BY <1>1, <1>2
  <2>2. Slice(Slice(b, e, Len(b)), 0, p - e) = Slice(b, e + 0, e + (p - e))
    BY <1>5, <2>1, Zenon
  <2> QED BY <1>4, <2>1, <2>2
<1> HIDE DEF consumed
<1>10. TakeRecord(C, text, separator, x)
        = [reader |-> Reader(Slice(b, p + n, Len(b)), 0, FALSE, d + (p + n), R.override),
           record |-> <<Record(Slice(b, e, p), text,
                               When(R.prefix_truncated \/ e > 0, "PrefixTruncated")
                                 \o diagnose(text, tokenize_fields(text, separator), separator,
                                             x.truncated),
                               d + p, x.len, n, separator)>>]
  BY <1>4, <1>6, <1>7, <1>8, <1>9, Zenon
<1> QED BY <1>10, Zenon DEF TakenAt, C, b, d, n, e

\* A read that found a start takes a message or waits for its end.
FoundAt(R, at_end, start, p, X, end) ==
  LET rest == Slice(R.buf, p, Len(R.buf))
      text == MessageText(rest, start.separator, end)
      separator == IF start.separator = CaretA THEN SOH ELSE start.separator
  IN  /\ end = MessageEnd(rest, start.separator, R.override, at_end)
      /\ EndResult(rest, at_end, end)
      /\ WaitOK(rest, at_end, end) => X = [reader |-> CapPrefix(R, p), record |-> <<>>]
      /\ EndOK(rest, end) => X = TakenAt(R, p, text, separator, end)
      /\ EndOK(rest, end) => end.consumed \in Nat /\ end.consumed >= 1
                             /\ p + end.consumed <= Len(R.buf)

\* read does so, of a start that is found.
LEMMA FoundIs ==
  ASSUME NEW R, ReaderOK(R), NEW at_end \in BOOLEAN, NEW start, start = Sought(R, at_end),
         start.kind = "Found", NEW p \in 0 .. Len(R.buf) - 1, p = PrefixLen(R.buf, start),
         At(R.buf, p) = 56, start.separator \in Byte \cup {CaretA}
  PROVE  FoundAt(R, at_end, start, p, read(R, at_end),
                 MessageEnd(Slice(R.buf, p, Len(R.buf)), start.separator, R.override, at_end))
<1> DEFINE b == R.buf
           C == CapPrefix(R, p)
           rest == Slice(b, p, Len(b))
           end == MessageEnd(rest, start.separator, R.override, at_end)
           text == MessageText(rest, start.separator, end)
           separator == IF start.separator = CaretA THEN SOH ELSE start.separator
           X == read(R, at_end)
<1>1. /\ b \in Seq(Byte) /\ Len(b) \in Nat /\ p \in Nat /\ p < Len(b) /\ p \in 0 .. Len(b)
      /\ R.override \in Byte \cup {None} /\ p <= Len(b) /\ Len(b) <= Len(b)
  BY DEF ReaderOK
<1>2. C.override = R.override
  BY <1>1, CapPrefixIs DEF CappedReader
<1>3. X = ReadAs(C, start, rest, at_end)
  BY <1>1, ReadIs
<1> HIDE DEF C, X
<1>4. X = IF end.kind = "Waiting" THEN [reader |-> C, record |-> <<>>]
          ELSE TakeRecord(C, text, separator, end)
  BY <1>2, <1>3, Zenon DEF ReadAs, ReadMessage, TakeOrWait
<1>5. /\ rest \in Seq(Byte) /\ Len(rest) = Len(b) - p /\ Len(rest) >= 1
      /\ At(rest, 0) = 56
  <2>1. /\ rest \in Seq(Byte) /\ Len(rest) = Len(b) - p
        /\ \A k \in 1 .. Len(b) - p : rest[k] = b[p + k]
    BY <1>1, ByteSlices, ZenonT(40)
  <2> HIDE DEF rest, b
  <2>2. Len(rest) >= 1 /\ rest[1] = b[p + 1]
    BY <1>1, <2>1
  <2>3. At(b, p) = 56
    BY DEF b
  <2> QED BY <1>1, <2>1, <2>2, <2>3 DEF At
<1> HIDE DEF rest
<1>6. EndResult(rest, at_end, end)
  BY <1>1, <1>5, MessageEndCases
<1> HIDE DEF end
<1>7. WaitOK(rest, at_end, end) => X = [reader |-> C, record |-> <<>>]
  <2>1. WaitOK(rest, at_end, end) => end.kind = "Waiting"
    BY DEF WaitOK, Waiting
  <2> QED BY <1>4, <2>1, Zenon
<1>8. ASSUME EndOK(rest, end)
      PROVE  /\ X = TakenAt(R, p, text, separator, end)
             /\ end.consumed \in Nat /\ end.consumed >= 1 /\ p + end.consumed <= Len(b)
  <2> HIDE DEF text, separator, b
  <2>1. /\ end.kind = "End" /\ end.consumed \in Nat /\ end.len \in Nat /\ 1 <= end.len
        /\ end.len <= end.consumed /\ end.consumed <= Len(rest)
    BY <1>8 DEF EndOK
  <2>2. end.consumed >= 1 /\ p + end.consumed <= Len(b)
    BY <1>1, <1>5, <2>1
  <2>3. TakeRecord(C, text, separator, end) = TakenAt(R, p, text, separator, end)
    BY <1>1, <2>1, <2>2, TakeIs DEF C, b
  <2>4. end.kind # "Waiting"
    BY <2>1
  <2>5. X = TakeRecord(C, text, separator, end)
    BY <1>4, <2>4, Zenon DEF text, separator
  <2> QED BY <2>1, <2>2, <2>3, <2>5
<1>9. FoundAt(R, at_end, start, p, X, end)
  BY <1>6, <1>7, <1>8, Zenon DEF FoundAt, rest, b, end, text, separator, C
<1> QED BY <1>9, Zenon DEF X, end, rest, b

\* A read before the log ends waits, and what it has capped changes nothing; or
\* it returns the record of the whole log, and leaves what that leaves of it.
\* Or the message is one of which that cannot be said.
Waits(R, L, X) ==
  \E p \in R.searched .. Len(R.buf) :
     /\ X.record = <<>> /\ X.reader = CapPrefix(R, p)
     /\ read(CapPrefix(L, p), TRUE) = read(L, TRUE)

After(R, k) == Reader(Slice(R.buf, k, Len(R.buf)), 0, FALSE, R.dropped + k, R.override)

Takes(R, L, X, Y) ==
  \E k \in 1 .. Len(R.buf) :
     /\ X.record # <<>> /\ X.record = Y.record
     /\ X.reader = After(R, k) /\ Y.reader = After(L, k)

Differs(L, Y) ==
  \E p \in 0 .. Len(L.buf) :
     /\ Y.record # <<>> /\ Y.record[1].from = L.dropped + p
     /\ DependsOnSplit(Slice(L.buf, p, Len(L.buf)), Y.record[1].separator)

\* What is capped while R waits changes nothing for L.
LEMMA WaitingAhead ==
  ASSUME NEW R, NEW L, Ahead(R, L), NEW p \in R.searched .. Len(R.buf), SearchedTo(R, p)
  PROVE  read(CapPrefix(L, p), TRUE) = read(L, TRUE)
<1>1. NoneDecided(L.buf, L.searched, p, L.override, TRUE)
  BY PrefixAhead
<1>2. p \in L.searched .. Len(L.buf)
  <2>1. /\ R.searched \in Nat /\ Len(R.buf) \in Nat /\ Len(L.buf) \in Nat
        /\ Len(R.buf) <= Len(L.buf) /\ L.searched = R.searched
    BY DEF Ahead, ReaderOK, Begins
  <2> QED BY <2>1
<1>3. ReaderOK(L)
  BY DEF Ahead
<1> QED BY <1>1, <1>2, <1>3, ReadResumes

\* The text of a message that ends in what both have.
LEMMA TextAhead ==
  ASSUME NEW a \in Seq(Byte), NEW b \in Seq(Byte), Begins(a, b), NEW separator, NEW end,
         EndOK(a, end)
  PROVE  MessageText(a, separator, end) = MessageText(b, separator, end)
<1>1. end.len \in Nat /\ 0 \in Nat /\ 0 <= end.len /\ end.len <= Len(a)
  BY DEF EndOK
<1>2. Slice(b, 0, end.len) = Slice(a, 0, end.len)
  BY <1>1, BeginsPart
<1> QED BY <1>2, Zenon DEF MessageText

\* Where it ends is the same, and what is taken.
LEMMA TakesSame ==
  ASSUME NEW R, NEW L, Ahead(R, L), NEW X, NEW Y, NEW start, NEW p \in 0 .. Len(R.buf) - 1,
         NEW end, FoundAt(R, FALSE, start, p, X, end), FoundAt(L, TRUE, start, p, Y, end),
         EndOK(Slice(R.buf, p, Len(R.buf)), end)
  PROVE  Takes(R, L, X, Y)
<1> DEFINE a == R.buf
           b == L.buf
           u == Slice(a, p, Len(a))
           v == Slice(b, p, Len(b))
           text == MessageText(u, start.separator, end)
           separator == IF start.separator = CaretA THEN SOH ELSE start.separator
           k == p + end.consumed
<1>1. /\ a \in Seq(Byte) /\ b \in Seq(Byte) /\ Begins(a, b) /\ Len(a) \in Nat
      /\ Len(b) \in Nat /\ Len(a) <= Len(b) /\ ReaderOK(R) /\ ReaderOK(L)
      /\ L.prefix_truncated = R.prefix_truncated /\ L.dropped = R.dropped
      /\ L.override = R.override /\ p \in Nat /\ p <= Len(a) /\ p <= Len(b)
  BY DEF Ahead, ReaderOK, Begins
<1>2. u \in Seq(Byte) /\ v \in Seq(Byte) /\ Begins(u, v)
  BY <1>1, BeginsSlice
<1>3. /\ X = TakenAt(R, p, text, separator, end)
      /\ end.consumed \in Nat /\ end.consumed >= 1 /\ k <= Len(a)
  BY Zenon DEF FoundAt
<1>4. MessageText(v, start.separator, end) = text
  <2>1. EndOK(u, end)
    OBVIOUS
  <2> HIDE DEF u, v
  <2> QED BY <1>2, <2>1, TextAhead
<1>5. Y = TakenAt(L, p, text, separator, end)
  <2>1. end.kind = "End"
    BY DEF EndOK
  <2>2. EndOK(v, end)
    <3>1. EndResult(v, TRUE, end)
      BY Zenon DEF FoundAt
    <3>2. end # Waiting
      BY <2>1 DEF Waiting
    <3> HIDE DEF v
    <3> QED BY <3>1, <3>2, Zenon DEF EndResult, WaitOK
  <2>3. Y = TakenAt(L, p, MessageText(v, start.separator, end), separator, end)
    BY <2>2, Zenon DEF FoundAt
  <2> QED BY <1>4, <2>3, Zenon
<1> HIDE DEF text, separator
<1>6. Slice(L.buf, Excess(p), p) = Slice(R.buf, Excess(p), p)
  <2>1. Excess(p) \in Nat /\ Excess(p) <= p
    BY <1>1, ExcessProperties
  <2> QED BY <1>1, <2>1, BeginsPart
<1> DEFINE r == Record(Slice(a, Excess(p), p), text,
                       When(R.prefix_truncated \/ Excess(p) > 0, "PrefixTruncated")
                         \o diagnose(text, tokenize_fields(text, separator), separator,
                                     end.truncated),
                       R.dropped + p, end.len, end.consumed, separator)
<1>7. X = [reader |-> After(R, k), record |-> <<r>>]
  BY <1>3, Zenon DEF TakenAt, After
<1>8. Y = [reader |-> After(L, k), record |-> <<r>>]
  BY <1>1, <1>5, <1>6, Zenon DEF TakenAt, After
<1>9. k \in 1 .. Len(R.buf)
  <2>1. end.consumed \in Nat /\ end.consumed >= 1 /\ p + end.consumed <= Len(a)
    BY <1>3, Zenon
  <2> DEFINE n == end.consumed
  <2> HIDE DEF n
  <2> QED BY <1>1, <2>1 DEF n
<1> HIDE DEF r, k
<1>10. X.record = <<r>> /\ Y.record = <<r>> /\ X.reader = After(R, k) /\ Y.reader = After(L, k)
  BY <1>7, <1>8
<1>11. <<r>> # <<>>
  OBVIOUS
<1> QED BY <1>9, <1>10, <1>11, Zenon DEF Takes

\* Where R finds a start before the log ends.
FindsAt(R, start, p) == start = Sought(R, FALSE) /\ start.kind = "Found" /\ p = start.at

StartOfBoth(R, L, start, p) ==
  /\ p \in R.searched .. Len(R.buf) /\ p \in 0 .. Len(R.buf) - 1
  /\ p \in 0 .. Len(L.buf) - 1 /\ At(R.buf, p) = 56 /\ At(L.buf, p) = 56
  /\ start = Sought(L, TRUE) /\ start.separator \in Byte \cup {CaretA}
  /\ check(Slice(R.buf, p, Len(R.buf)), R.override).kind = "Start"
  /\ check(Slice(R.buf, p, Len(R.buf)), R.override).separator = start.separator

\* The start that R finds is one to both.
LEMMA BothFind ==
  ASSUME NEW R, NEW L, Ahead(R, L), NEW start, NEW p, FindsAt(R, start, p)
  PROVE  StartOfBoth(R, L, start, p)
<1>1. /\ Sought(R, FALSE).kind = "Found" /\ p = Sought(R, FALSE).at
      /\ start.kind = "Found" /\ start = Sought(R, FALSE)
  BY Zenon DEF FindsAt
<1>2. /\ start = Sought(L, TRUE) /\ p \in R.searched .. Len(R.buf) - 1 /\ At(R.buf, p) = 56
      /\ check(Slice(R.buf, p, Len(R.buf)), R.override).kind = "Start"
      /\ check(Slice(R.buf, p, Len(R.buf)), R.override).separator = start.separator
  BY <1>1, SoughtAhead, Zenon
<1> DEFINE a == R.buf
           b == L.buf
           s == R.override
           from == R.searched
<1>3. /\ a \in Seq(Byte) /\ b \in Seq(Byte) /\ Begins(a, b) /\ Len(a) \in Nat
      /\ s \in Byte \cup {None} /\ from \in Nat /\ Len(b) \in Nat /\ Len(a) <= Len(b)
  BY DEF Ahead, ReaderOK, Begins
<1>4. start.separator \in Byte \cup {CaretA}
  <2> DEFINE u == FALSE
  <2>1. u \in BOOLEAN /\ start = find_start(a, from, Len(a), s, u)
    BY <1>1, Zenon DEF Sought
  <2> HIDE DEF u, a, b, s, from
  <2>4. Len(a) <= Len(a)
    BY <1>3
  <2>2. StartResult(a, from, Len(a), u, start)
    BY <1>3, <2>1, <2>4, FindStartCases
  <2>3. start.kind = "Found"
    BY <1>1
  <2> QED BY <2>2, <2>3 DEF StartResult
<1> HIDE DEF a, b, s, from
<1>5. p \in from .. Len(a) - 1 /\ At(a, p) = 56
  BY <1>2 DEF a, from
<1>6. p \in from .. Len(a) /\ p \in 0 .. Len(a) - 1 /\ p \in 0 .. Len(b) - 1
  BY <1>3, <1>5
<1>7. At(b, p) = 56
  BY <1>3, <1>5, <1>6 DEF At, Begins
<1> QED BY <1>2, <1>4, <1>5, <1>6, <1>7, Zenon DEF a, b, from, StartOfBoth

\* A record is taken only of a start that is found.
LEMMA TakesFound ==
  ASSUME NEW R, NEW at_end, NEW X, TakesOne(R, at_end, X)
  PROVE  Sought(R, at_end).kind = "Found"
<1>1. PICK q \in R.searched .. Len(R.buf), len \in Nat, consumed \in Nat,
           message \in Seq(Byte), diagnostics \in Seq(LogDiagnostic), separator \in Byte :
          /\ q = PrefixLen(R.buf, Sought(R, at_end)) /\ Sought(R, at_end).kind = "Found"
          /\ 1 <= len /\ len <= consumed /\ q + consumed <= Len(R.buf)
          /\ X = [reader |-> Reader(Slice(R.buf, q + consumed, Len(R.buf)), 0, FALSE,
                                    R.dropped + (q + consumed), R.override),
                  record |-> <<Record(Slice(R.buf, Excess(q), q), message, diagnostics,
                                      R.dropped + q, len, consumed, separator)>>]
          /\ message \in {Slice(R.buf, q, q + len), Restored(Slice(R.buf, q, q + len))}
          /\ Slice(R.buf, q + len, q + consumed) \in {<<>>, <<LF>>, <<CR, LF>>}
          /\ (\E i \in 1 .. Len(diagnostics) : diagnostics[i] = "PrefixTruncated")
               <=> (R.prefix_truncated \/ Excess(q) > 0)
  BY Zenon DEF TakesOne
<1> QED BY <1>1, Zenon

\* What a read comes to before the log ends, and after.
LEMMA ReadAgrees ==
  ASSUME NEW R, NEW L, Ahead(R, L)
  PROVE  \/ Waits(R, L, read(R, FALSE)) \/ Differs(L, read(L, TRUE))
         \/ Takes(R, L, read(R, FALSE), read(L, TRUE))
<1> DEFINE X == read(R, FALSE)
           Y == read(L, TRUE)
           start == Sought(R, FALSE)
           p == PrefixLen(R.buf, start)
           u == Slice(R.buf, p, Len(R.buf))
           v == Slice(L.buf, p, Len(L.buf))
           end == MessageEnd(u, start.separator, R.override, FALSE)
           all == MessageEnd(v, start.separator, L.override, TRUE)
           f == FALSE
           t == TRUE
<1>1. /\ ReaderOK(R) /\ ReaderOK(L) /\ L.override = R.override /\ f \in BOOLEAN /\ t \in BOOLEAN
      /\ Begins(R.buf, L.buf) /\ R.buf \in Seq(Byte) /\ L.buf \in Seq(Byte)
      /\ Len(R.buf) \in Nat /\ Len(L.buf) \in Nat /\ L.dropped \in Nat
      /\ R.override \in Byte \cup {None} /\ Len(R.buf) <= Len(L.buf)
  BY DEF Ahead, ReaderOK, Begins
<1>2. SearchedTo(R, p)
  BY Zenon DEF SearchedTo
<1>3. ASSUME X = [reader |-> CapPrefix(R, p), record |-> <<>>], p \in R.searched .. Len(R.buf)
      PROVE  Waits(R, L, X)
  <2>1. read(CapPrefix(L, p), TRUE) = read(L, TRUE)
    <3> HIDE DEF p
    <3> QED BY <1>2, <1>3, WaitingAhead
  <2> HIDE DEF X, p
  <2>2. X.reader = CapPrefix(R, p) /\ X.record = <<>>
    BY <1>3
  <2> QED BY <1>3, <2>1, <2>2, Zenon DEF Waits
<1>4. CASE start.kind # "Found"
  <2>1. TakesNone(R, f, read(R, f)) \/ TakesOne(R, f, read(R, f))
    <3> HIDE DEF f
    <3> QED BY <1>1, ReadCases
  <2>2. ~TakesOne(R, FALSE, X)
    BY <1>4, TakesFound, Zenon
  <2>3. TakesNone(R, FALSE, X)
    BY <2>1, <2>2, Zenon
  <2>4. X = [reader |-> CapPrefix(R, p), record |-> <<>>] /\ p \in R.searched .. Len(R.buf)
    BY <2>3, Zenon DEF TakesNone
  <2> QED BY <1>3, <2>4, Zenon
<1>5. CASE start.kind = "Found"
  <2>1. p = start.at
    BY <1>5, Zenon DEF PrefixLen
  <2>2. /\ p \in R.searched .. Len(R.buf) /\ p \in 0 .. Len(R.buf) - 1
        /\ p \in 0 .. Len(L.buf) - 1 /\ At(R.buf, p) = 56 /\ At(L.buf, p) = 56
        /\ start = Sought(L, TRUE) /\ start.separator \in Byte \cup {CaretA}
        /\ check(u, R.override).kind = "Start"
        /\ check(u, R.override).separator = start.separator
    <3>1. FindsAt(R, start, p)
      BY <1>5, <2>1, Zenon DEF FindsAt
    <3> HIDE DEF start, p
    <3>2. StartOfBoth(R, L, start, p)
      BY <3>1, BothFind, Zenon
    <3> QED BY <3>2, Zenon DEF StartOfBoth
  <2>3. p = PrefixLen(R.buf, start) /\ p = PrefixLen(L.buf, start)
    BY <1>5, Zenon DEF PrefixLen
  <2>4. FoundAt(R, FALSE, start, p, X, end)
    <3>1. start = Sought(R, f)
      OBVIOUS
    <3> HIDE DEF start, p, f
    <3>2. FoundAt(R, f, start, p, read(R, f),
                  MessageEnd(Slice(R.buf, p, Len(R.buf)), start.separator, R.override, f))
      BY <1>1, <1>5, <2>2, <2>3, <3>1, FoundIs
    <3> QED BY <3>2, Zenon DEF f
  <2>5. FoundAt(L, TRUE, start, p, Y, all)
    <3>1. start = Sought(L, t)
      BY <2>2, Zenon
    <3> HIDE DEF start, p, t
    <3>2. FoundAt(L, t, start, p, read(L, t),
                  MessageEnd(Slice(L.buf, p, Len(L.buf)), start.separator, L.override, t))
      BY <1>1, <1>5, <2>2, <2>3, <3>1, FoundIs
    <3> QED BY <3>2, Zenon DEF t
  <2> HIDE DEF X, Y
  <2>6. CASE WaitOK(u, FALSE, end)
    <3>1. X = [reader |-> CapPrefix(R, p), record |-> <<>>]
      BY <2>4, <2>6, Zenon DEF FoundAt
    <3>2. Waits(R, L, X)
      BY <1>3, <2>2, <3>1, Zenon
    <3> QED BY <3>2, Zenon DEF X
  <2>7. CASE EndOK(u, end) /\ (start.separator # CaretA => ~DependsOnSplit(v, start.separator))
    <3> DEFINE separator == start.separator
    <3>1. Same(end, all)
      <4> HIDE DEF start, p
      <4>1. /\ p \in Nat /\ p < Len(R.buf) /\ p <= Len(R.buf) /\ Len(R.buf) <= Len(R.buf)
        BY <1>1, <2>2
      <4>2. Begins(u, v) /\ u \in Seq(Byte) /\ v \in Seq(Byte)
        BY <1>1, <4>1, BeginsSlice
      <4>3. /\ Len(u) = Len(R.buf) - p
            /\ \A k \in 1 .. Len(R.buf) - p : u[k] = R.buf[p + k]
        BY <1>1, <4>1, ByteSlices, Zenon
      <4>4. Len(u) >= 1 /\ At(u, 0) = 56
        <5> HIDE DEF u
        <5>1. Len(u) >= 1 /\ u[1] = R.buf[p + 1]
          BY <1>1, <4>1, <4>3
        <5> QED BY <2>2, <4>1, <5>1 DEF At
      <4> HIDE DEF u, v
      <4>5. separator \in Byte \cup {CaretA} /\ separator = check(u, R.override).separator
            /\ (separator # CaretA => ~DependsOnSplit(v, separator))
        BY <2>2, <2>7, Zenon
      <4> HIDE DEF separator
      <4>6. Same(MessageEnd(u, separator, R.override, FALSE),
                 MessageEnd(v, separator, R.override, TRUE))
        BY <1>1, <2>2, <4>2, <4>4, <4>5, MessageEndSame
      <4> QED BY <1>1, <4>6, Zenon DEF separator
    <3> HIDE DEF end, all, u, v, start, p
    <3>2. end # Waiting
      BY <2>7 DEF EndOK, Waiting
    <3>3. all = end
      BY <3>1, <3>2, Zenon DEF Same
    <3>4. FoundAt(L, TRUE, start, p, Y, end)
      BY <2>5, <3>3, Zenon
    <3>5. EndOK(Slice(R.buf, p, Len(R.buf)), end)
      BY <2>7, Zenon DEF u
    <3>6. Takes(R, L, X, Y)
      BY <2>2, <2>4, <3>4, <3>5, TakesSame
    <3> QED BY <3>6, Zenon DEF X, Y
  <2>8. CASE start.separator # CaretA /\ DependsOnSplit(v, start.separator)
    <3>1. EndOK(v, all)
      <4>1. EndResult(v, TRUE, all)
        BY <2>5, Zenon DEF FoundAt
      <4>2. ~WaitOK(v, TRUE, all)
        BY Zenon DEF WaitOK
      <4> QED BY <4>1, <4>2, Zenon DEF EndResult
    <3> DEFINE text == MessageText(v, start.separator, all)
    <3>2. Y = TakenAt(L, p, text, start.separator, all)
      BY <2>5, <2>8, <3>1, Zenon DEF FoundAt
    <3> HIDE DEF text, all, start, v, p
    <3>3. Y.record # <<>> /\ Y.record[1].from = L.dropped + p
          /\ Y.record[1].separator = start.separator
      BY <3>2 DEF TakenAt, Record
    <3>4. p \in 0 .. Len(L.buf)
      BY <1>1, <2>2
    <3>5. DependsOnSplit(Slice(L.buf, p, Len(L.buf)), Y.record[1].separator)
      BY <2>8, <3>3, Zenon DEF v
    <3>6. Differs(L, Y)
      BY <3>3, <3>4, <3>5, Zenon DEF Differs
    <3> QED BY <3>6, Zenon DEF Y
  <2>9. EndOK(u, end) \/ WaitOK(u, FALSE, end)
    BY <2>4, Zenon DEF FoundAt, EndResult
  <2> QED BY <2>6, <2>7, <2>8, <2>9, Zenon DEF X, Y
<1> QED BY <1>4, <1>5, Zenon

-----------------------------------------------------------------------------
(* Splitting the log changes nothing: what is read of it and what would be   *)
(* read of the rest, all at once, are the records of the log.                *)

\* The reader Q of the log l, with the rest of l in its buffer.
Lift(l, Q) ==
  Reader(Slice(l, Q.dropped, Len(l)), Q.searched, Q.prefix_truncated, Q.dropped, Q.override)

\* A reader is one that RecordsOf is defined for.
LEMMA ReaderIn ==
  ASSUME NEW b \in Seq(Byte), NEW sd \in Nat, NEW t, t \in BOOLEAN, NEW d \in Nat, NEW s
  PROVE  Reader(b, sd, t, d, s) \in ReadersOf(s)
BY DEF Reader, ReadersOf

LEMMA ReaderFields ==
  ASSUME NEW b, NEW sd, NEW t, NEW d, NEW s
  PROVE  /\ Reader(b, sd, t, d, s).buf = b /\ Reader(b, sd, t, d, s).searched = sd
         /\ Reader(b, sd, t, d, s).prefix_truncated = t /\ Reader(b, sd, t, d, s).dropped = d
         /\ Reader(b, sd, t, d, s).override = s
BY DEF Reader

\* A reader that is what LogInv says is one of the log.
LEMMA AheadIs ==
  ASSUME NEW l, NEW s, NEW f, NEW b, NEW sd, NEW t, NEW d, NEW rs,
         LogInv(l, s, f, b, sd, t, d, rs), NEW R, R = Reader(b, sd, t, d, s)
  PROVE  /\ Ahead(R, Lift(l, R)) /\ Lift(l, R) \in ReadersOf(s) /\ s \in Byte \cup {None}
         /\ l \in Seq(Byte) /\ d \in 0 .. Len(l) /\ R.dropped = d /\ R.override = s
         /\ Lift(l, R).buf = Slice(l, d, Len(l)) /\ Len(Lift(l, R).buf) = Len(l) - d
         /\ f = Len(l) => Lift(l, R) = R
<1> DEFINE c == Slice(l, d, Len(l))
           L == Lift(l, R)
<1>1. /\ R.buf = b /\ R.searched = sd /\ R.prefix_truncated = t /\ R.dropped = d
      /\ R.override = s
  BY ReaderFields
<1>2. /\ l \in Seq(Byte) /\ s \in Byte \cup {None} /\ f \in Nat /\ d \in Nat
      /\ d <= f /\ f <= Len(l) /\ d <= Len(l) /\ Len(l) \in Nat /\ Len(l) <= Len(l)
      /\ b = Slice(l, d, f) /\ sd \in 0 .. Len(b) /\ t \in BOOLEAN
  BY DEF LogInv
<1>3. L = Reader(c, sd, t, d, s)
  BY <1>1, Zenon DEF Lift
<1> HIDE DEF L
<1>4. /\ b \in Seq(Byte) /\ Len(b) = f - d
      /\ \A k \in 1 .. f - d : b[k] = l[d + k]
  BY <1>2, ByteSlices, Zenon
<1>5. /\ c \in Seq(Byte) /\ Len(c) = Len(l) - d
      /\ \A k \in 1 .. Len(l) - d : c[k] = l[d + k]
  BY <1>2, ByteSlices, Zenon
<1>6. /\ L.buf = c /\ L.searched = sd /\ L.prefix_truncated = t /\ L.dropped = d
      /\ L.override = s
  BY <1>3, ReaderFields
<1>7. f = Len(l) => L = R
  BY <1>2, <1>3, Zenon
<1> HIDE DEF c
<1>8. Begins(b, c)
  <2>1. Len(b) <= Len(c) /\ \A k \in 1 .. f - d : k \in 1 .. Len(l) - d
    BY <1>2, <1>4, <1>5
  <2>2. \A k \in 1 .. Len(b) : b[k] = c[k]
    BY <1>4, <1>5, <2>1
  <2> QED BY <2>1, <2>2 DEF Begins
<1>9. sd \in Nat /\ sd <= Len(b) /\ sd <= Len(c) /\ Len(b) \in Nat /\ Len(c) \in Nat
  BY <1>2, <1>4, <1>5
<1>10. ReaderOK(R)
  BY <1>1, <1>2, <1>4, <1>9 DEF ReaderOK
<1>11. ReaderOK(L)
  BY <1>2, <1>5, <1>6, <1>9 DEF ReaderOK
<1>12. Ahead(R, L)
  BY <1>1, <1>6, <1>8, <1>10, <1>11 DEF Ahead
<1>13. L \in ReadersOf(s)
  BY <1>2, <1>3, <1>5, <1>9, ReaderIn
<1>14. d \in 0 .. Len(l)
  BY <1>2
<1> QED BY <1>1, <1>2, <1>5, <1>6, <1>7, <1>12, <1>13, <1>14, Zenon DEF L, c

\* The rest of the log goes on the same behind what is dropped.
LEMMA LiftIs ==
  ASSUME NEW l \in Seq(Byte), NEW R, R.dropped \in 0 .. Len(l),
         NEW e \in 0 .. Len(l) - R.dropped
  PROVE  /\ Slice(l, R.dropped + e, Len(l))
              = Slice(Lift(l, R).buf, e, Len(Lift(l, R).buf))
         /\ Lift(l, R).searched = R.searched /\ Lift(l, R).override = R.override
         /\ Lift(l, R).prefix_truncated = R.prefix_truncated
         /\ Lift(l, R).dropped = R.dropped
<1> DEFINE d == R.dropped
           L == Lift(l, R)
<1>1. d \in Nat /\ d <= Len(l) /\ Len(l) \in Nat /\ Len(l) <= Len(l) /\ e \in Nat
      /\ e <= Len(l) - d
  OBVIOUS
<1>2. /\ L.buf = Slice(l, d, Len(l)) /\ L.searched = R.searched /\ L.override = R.override
      /\ L.prefix_truncated = R.prefix_truncated /\ L.dropped = R.dropped
  BY ReaderFields DEF Lift
<1> HIDE DEF d, L
<1>3. Len(Slice(l, d, Len(l))) = Len(l) - d
  BY <1>1, ByteSlices, Zenon
<1>4. Slice(Slice(l, d, Len(l)), e, Len(l) - d) = Slice(l, d + e, Len(l))
  BY <1>1, SliceRest
<1>5. Slice(l, d + e, Len(l)) = Slice(L.buf, e, Len(L.buf))
  BY <1>2, <1>3, <1>4, Zenon
<1> QED BY <1>2, <1>5, Zenon DEF d, L

\* Capping the prefix leaves the rest of the log as it is.
LEMMA LiftCap ==
  ASSUME NEW l \in Seq(Byte), NEW R, R.dropped \in 0 .. Len(l),
         NEW p \in 0 .. Len(l) - R.dropped
  PROVE  Lift(l, CapPrefix(R, p)) = CapPrefix(Lift(l, R), p)
<1> DEFINE e == Excess(p)
           L == Lift(l, R)
           C == CapPrefix(R, p)
<1>1. e \in 0 .. Len(l) - R.dropped
  <2>1. p \in Nat /\ p <= Len(l) - R.dropped /\ Len(l) - R.dropped \in Nat
    OBVIOUS
  <2>2. e \in Nat /\ e <= p
    BY <2>1, ExcessProperties
  <2> HIDE DEF e
  <2> QED BY <2>1, <2>2
<1>2. /\ Slice(l, R.dropped + e, Len(l)) = Slice(L.buf, e, Len(L.buf))
      /\ L.searched = R.searched /\ L.override = R.override
      /\ L.prefix_truncated = R.prefix_truncated /\ L.dropped = R.dropped
  BY <1>1, LiftIs
<1>3. /\ C.dropped = R.dropped + e /\ C.searched = p - e /\ C.override = R.override
      /\ C.prefix_truncated = (R.prefix_truncated \/ e > 0)
  BY CapPrefixBy, ReaderFields
<1>4. CapPrefix(L, p) = Reader(Slice(L.buf, e, Len(L.buf)), p - e, L.prefix_truncated \/ e > 0,
                               L.dropped + e, L.override)
  BY CapPrefixBy
<1> HIDE DEF C, L, e
<1>5. Lift(l, C) = Reader(Slice(L.buf, e, Len(L.buf)), p - e, R.prefix_truncated \/ e > 0,
                          R.dropped + e, R.override)
  BY <1>2, <1>3, Zenon DEF Lift
<1>6. Lift(l, C) = CapPrefix(L, p)
  BY <1>2, <1>4, <1>5, Zenon
<1> QED BY <1>6 DEF C, L

\* Taking a message leaves the rest of the log as it is.
LEMMA LiftAfter ==
  ASSUME NEW l \in Seq(Byte), NEW R, R.dropped \in 0 .. Len(l),
         NEW k \in 0 .. Len(l) - R.dropped
  PROVE  Lift(l, After(R, k)) = After(Lift(l, R), k)
<1> DEFINE L == Lift(l, R)
           A == After(R, k)
<1>1. /\ Slice(l, R.dropped + k, Len(l)) = Slice(L.buf, k, Len(L.buf))
      /\ L.override = R.override /\ L.dropped = R.dropped
  BY LiftIs
<1>2. /\ A.dropped = R.dropped + k /\ A.searched = 0 /\ A.override = R.override
      /\ A.prefix_truncated = FALSE
  <2> DEFINE u == FALSE
             b == Slice(R.buf, k, Len(R.buf))
             d == R.dropped + k
             s == R.override
  <2>1. A = Reader(b, 0, u, d, s)
    BY Zenon DEF After
  <2> HIDE DEF u, b, d, s, A
  <2>2. A.dropped = d /\ A.searched = 0 /\ A.override = s /\ A.prefix_truncated = u
    BY <2>1, ReaderFields
  <2> QED BY <2>2, Zenon DEF u, d, s
<1> HIDE DEF A, L
<1>3. Lift(l, A) = Reader(Slice(L.buf, k, Len(L.buf)), 0, FALSE, R.dropped + k, R.override)
  BY <1>1, <1>2, Zenon DEF Lift
<1>4. Lift(l, A) = After(L, k)
  BY <1>1, <1>3, Zenon DEF After
<1> QED BY <1>4 DEF A, L

\* Some record is of a message of which it matters where it is split.
Matters(l, rs) ==
  \E i \in 1 .. Len(rs) : DependsOnSplit(Slice(l, rs[i].from, Len(l)), rs[i].separator)

\* It matters still when records come before.
LEMMA MattersLater ==
  ASSUME NEW l, NEW V, NEW rs \in Seq(V), NEW q \in Seq(V), Matters(l, q)
  PROVE  Matters(l, rs \o q)
<1>1. PICK i \in 1 .. Len(q) : DependsOnSplit(Slice(l, q[i].from, Len(l)), q[i].separator)
  BY Zenon DEF Matters
<1>2. Len(rs) + i \in 1 .. Len(rs \o q) /\ (rs \o q)[Len(rs) + i] = q[i]
  OBVIOUS
<1> QED BY <1>1, <1>2, Zenon DEF Matters

\* What a read returns, and the records of what it leaves of the log, are those
\* of what was left.
ReadsOn(l, s, R, X) ==
  \/ RecordsFrom(s)[Lift(l, R)] = X.record \o RecordsFrom(s)[Lift(l, X.reader)]
  \/ Matters(l, RecordsFrom(s)[Lift(l, R)])

\* What RecordsFromIs says of one reader.
LEMMA FollowIs ==
  ASSUME NEW s \in Byte \cup {None}, NEW R \in ReadersOf(s)
  PROVE  /\ RecordsFrom(s)[R] = IF read(R, TRUE).record = <<>> THEN <<>>
                                ELSE read(R, TRUE).record
                                       \o RecordsFrom(s)[read(R, TRUE).reader]
         /\ RecordsFrom(s)[R] \in Seq(LogRecord)
<1>1. RecordsFollow(s, R) /\ RecordsFrom(s)[R] \in Seq(LogRecord)
  BY RecordsFromIs
<1> QED BY <1>1, Zenon DEF RecordsFollow

\* Nothing is left once the whole log is searched.
LEMMA NothingToCome ==
  ASSUME NEW s \in Byte \cup {None}, NEW l \in Seq(Byte), NEW Q, Lift(l, Q) \in ReadersOf(s),
         Q.dropped \in 0 .. Len(l), Q.dropped + Q.searched = Len(l)
  PROVE  RecordsFrom(s)[Lift(l, Q)] = <<>>
<1> DEFINE L == Lift(l, Q)
           d == Q.dropped
<1>1. L.buf = Slice(l, d, Len(l)) /\ L.searched = Q.searched
  BY ReaderFields DEF Lift
<1>2. L \in ReadersOf(s)
  OBVIOUS
<1>3. d \in Nat /\ d <= Len(l) /\ Len(l) \in Nat /\ Len(l) <= Len(l) /\ d + Q.searched = Len(l)
  OBVIOUS
<1> HIDE DEF L, d
<1>4. L.searched \in Nat
  BY <1>2 DEF ReadersOf
<1>5. Len(L.buf) = Len(l) - d
  BY <1>1, <1>3, ByteSlices, ZenonT(40)
<1>6. L.searched >= Len(L.buf)
  <2> DEFINE n == Len(l)
             m == L.searched
             k == Len(L.buf)
  <2>1. m \in Nat /\ d \in Nat /\ n \in Nat /\ d + m = n /\ k = n - d
    BY <1>1, <1>3, <1>4, <1>5
  <2> HIDE DEF n, m, k
  <2>2. m >= k
    BY <2>1
  <2> QED BY <2>2 DEF m, k
<1>7. read(L, TRUE).record = <<>>
  BY <1>2, <1>6, NothingLeft, Zenon
<1>8. RecordsFrom(s)[L] = <<>>
  BY <1>2, <1>7, FollowIs, Zenon
<1> QED BY <1>8 DEF L

\* A read while more of the log may come.
LEMMA NextReads ==
  ASSUME NEW l, NEW s, NEW f, NEW b, NEW sd, NEW t, NEW d, NEW rs,
         LogInv(l, s, f, b, sd, t, d, rs), NEW R, R = Reader(b, sd, t, d, s)
  PROVE  ReadsOn(l, s, R, read(R, FALSE))
<1> DEFINE L == Lift(l, R)
           X == read(R, FALSE)
           Y == read(L, TRUE)
           F == RecordsFrom(s)
<1>1. /\ Ahead(R, L) /\ L \in ReadersOf(s) /\ s \in Byte \cup {None}
      /\ l \in Seq(Byte) /\ d \in 0 .. Len(l) /\ R.dropped = d
      /\ L.buf = Slice(l, d, Len(l)) /\ Len(L.buf) = Len(l) - d
  BY AheadIs
<1>2. Waits(R, L, X) \/ Differs(L, Y) \/ Takes(R, L, X, Y)
  BY <1>1, ReadAgrees, Zenon
<1>3. /\ F[L] = IF Y.record = <<>> THEN <<>> ELSE Y.record \o F[Y.reader]
      /\ F[L] \in Seq(LogRecord)
  BY <1>1, FollowIs, Zenon
<1>4. /\ Len(R.buf) \in Nat /\ Len(R.buf) <= Len(l) - d /\ R.searched \in Nat
      /\ Len(l) \in Nat /\ d \in Nat /\ d <= Len(l) /\ ReaderOK(L)
      /\ L.dropped = d /\ L.override = s
  <2>1. /\ Len(R.buf) \in Nat /\ Len(R.buf) <= Len(L.buf) /\ R.searched \in Nat /\ ReaderOK(L)
        /\ L.dropped = R.dropped
    <3> HIDE DEF L
    <3> QED BY <1>1 DEF Ahead, ReaderOK, Begins
  <2>2. L.override = s
    <3> HIDE DEF L
    <3> QED BY <1>1 DEF ReadersOf
  <2> HIDE DEF L
  <2> QED BY <1>1, <2>1, <2>2
<1>5. CASE Waits(R, L, X)
  <2> HIDE DEF X, F
  <2>1. PICK p \in R.searched .. Len(R.buf) :
           /\ X.record = <<>> /\ X.reader = CapPrefix(R, p)
           /\ read(CapPrefix(L, p), TRUE) = read(L, TRUE)
    BY <1>5, Zenon DEF Waits
  <2> HIDE DEF L
  <2>2. /\ p \in Nat /\ p <= Len(l) - d /\ p \in 0 .. Len(l) - R.dropped
        /\ p \in 0 .. Len(L.buf)
    BY <1>1, <1>4
  <2> DEFINE C == CapPrefix(L, p)
             e == Excess(p)
  <2>3. Lift(l, X.reader) = C
    BY <1>1, <2>1, <2>2, LiftCap DEF L
  <2>4. C \in ReadersOf(s)
    <3>1. C = Reader(Slice(L.buf, e, Len(L.buf)), p - e, L.prefix_truncated \/ e > 0,
                     L.dropped + e, L.override)
      BY CapPrefixBy
    <3>2. e \in Nat /\ e <= p
      BY <2>2, ExcessProperties
    <3>3. CappedReader(L, p, C)
      BY <1>4, <2>2, CapPrefixIs
    <3> HIDE DEF C, e
    <3>4. C.buf \in Seq(Byte) /\ C.buf = Slice(L.buf, e, Len(L.buf))
      BY <3>1, <3>3, ReaderFields DEF CappedReader
    <3>5. p - e \in Nat /\ L.dropped + e \in Nat
      BY <1>4, <2>2, <3>2
    <3> DEFINE u == L.prefix_truncated \/ e > 0
    <3>6. u \in BOOLEAN
      OBVIOUS
    <3> HIDE DEF u
    <3>7. Reader(Slice(L.buf, e, Len(L.buf)), p - e, u, L.dropped + e, s) \in ReadersOf(s)
      BY <3>4, <3>5, <3>6, ReaderIn
    <3> QED BY <1>4, <3>1, <3>7, Zenon DEF u
  <2> HIDE DEF C
  <2>5. F[C] = IF read(C, TRUE).record = <<>> THEN <<>>
               ELSE read(C, TRUE).record \o F[read(C, TRUE).reader]
    BY <1>1, <2>4, FollowIs, Zenon DEF F
  <2>6. F[C] = F[L]
    BY <1>3, <2>1, <2>5, Zenon DEF C
  <2>7. F[L] = <<>> \o F[L]
    <3> DEFINE q == F[L]
    <3>1. q \in Seq(LogRecord)
      BY <1>3
    <3> HIDE DEF q
    <3>2. q = <<>> \o q
      BY <3>1
    <3> QED BY <3>2 DEF q
  <2>8. F[L] = X.record \o F[Lift(l, X.reader)]
    BY <2>1, <2>3, <2>6, <2>7, Zenon
  <2> QED BY <2>8, Zenon DEF ReadsOn, F, L, X
<1>6. CASE Takes(R, L, X, Y)
  <2> HIDE DEF X, F, Y
  <2>1. PICK k \in 1 .. Len(R.buf) :
           /\ X.record # <<>> /\ X.record = Y.record
           /\ X.reader = After(R, k) /\ Y.reader = After(L, k)
    BY <1>6, Zenon DEF Takes
  <2> HIDE DEF L
  <2>2. k \in 0 .. Len(l) - R.dropped
    BY <1>1, <1>4
  <2>3. Lift(l, X.reader) = After(L, k)
    BY <1>1, <2>1, <2>2, LiftAfter DEF L
  <2>4. F[L] = X.record \o F[Lift(l, X.reader)]
    BY <1>3, <2>1, <2>3, Zenon
  <2> QED BY <2>4, Zenon DEF ReadsOn, F, L, X
<1>7. CASE Differs(L, Y)
  <2> HIDE DEF F, Y
  <2>1. PICK p \in 0 .. Len(L.buf) :
           /\ Y.record # <<>> /\ Y.record[1].from = L.dropped + p
           /\ DependsOnSplit(Slice(L.buf, p, Len(L.buf)), Y.record[1].separator)
    BY <1>7, Zenon DEF Differs
  <2>2. Slice(L.buf, p, Len(L.buf)) = Slice(l, Y.record[1].from, Len(l))
    <3> HIDE DEF L
    <3>1. p \in 0 .. Len(l) - R.dropped
      BY <1>1, <1>4
    <3>2. Slice(l, R.dropped + p, Len(l)) = Slice(L.buf, p, Len(L.buf))
      BY <1>1, <3>1, LiftIs DEF L
    <3> QED BY <1>1, <1>4, <2>1, <3>2, Zenon
  <2> HIDE DEF L
  <2>3. Y.record \in Seq(LogRecord)
    BY <1>1, RecordTaken, Zenon DEF Taken, Y
  <2>4. Y.reader \in ReadersOf(s)
    BY <1>1, <2>1, RecordTaken, Zenon DEF Taken, Y
  <2>5. F[Y.reader] \in Seq(LogRecord)
    BY <1>1, <2>4, FollowIs, Zenon DEF F
  <2> DEFINE u == Y.record
             v == F[Y.reader]
  <2>6. F[L] = u \o v
    BY <1>3, <2>1, Zenon
  <2>7. u \in Seq(LogRecord) /\ v \in Seq(LogRecord) /\ u # <<>>
    BY <2>1, <2>3, <2>5
  <2>a. DependsOnSplit(Slice(l, u[1].from, Len(l)), u[1].separator)
    BY <2>1, <2>2, Zenon
  <2> HIDE DEF u, v
  <2>8. 1 \in 1 .. Len(u \o v) /\ (u \o v)[1] = u[1]
    BY <2>7
  <2>9. Matters(l, u \o v)
    BY <2>8, <2>a, Zenon DEF Matters
  <2> QED BY <2>6, <2>9, Zenon DEF ReadsOn, F, L
<1> QED BY <1>2, <1>5, <1>6, <1>7, Zenon

\* A read that takes none returns none.
LEMMA TakesNothing ==
  ASSUME NEW R, NEW at_end, NEW X, TakesNone(R, at_end, X)
  PROVE  X.record = <<>>
BY DEF TakesNone

\* A read at the end of the log, which has all of it.
LEMMA DrainReads ==
  ASSUME NEW l, NEW s, NEW f, NEW b, NEW sd, NEW t, NEW d, NEW rs,
         LogInv(l, s, f, b, sd, t, d, rs), f = Len(l), NEW R, R = Reader(b, sd, t, d, s),
         read(R, TRUE).record = <<>> => RecordsFrom(s)[Lift(l, read(R, TRUE).reader)] = <<>>
  PROVE  ReadsOn(l, s, R, read(R, TRUE))
<1> DEFINE L == Lift(l, R)
           X == read(R, TRUE)
           F == RecordsFrom(s)
<1>1. /\ Ahead(R, L) /\ L \in ReadersOf(s) /\ s \in Byte \cup {None}
      /\ l \in Seq(Byte) /\ d \in 0 .. Len(l) /\ R.dropped = d
      /\ Len(L.buf) = Len(l) - d /\ L = R
  BY AheadIs
<1>2. F[R] = IF X.record = <<>> THEN <<>> ELSE X.record \o F[X.reader]
  BY <1>1, FollowIs, Zenon
<1>3. X.record = <<>> => F[Lift(l, X.reader)] = <<>>
  BY Zenon
<1>4. CASE X.record = <<>>
  <2>1. <<>> = <<>> \o <<>>
    OBVIOUS
  <2>2. F[L] = X.record \o F[Lift(l, X.reader)]
    BY <1>1, <1>2, <1>3, <1>4, <2>1, Zenon
  <2> QED BY <2>2, Zenon DEF ReadsOn
<1>5. CASE X.record # <<>>
  <2>1. TakesNone(R, TRUE, X) \/ TakesOne(R, TRUE, X)
    <3> DEFINE u == TRUE
    <3>1. u \in BOOLEAN
      OBVIOUS
    <3>2. ReaderOK(R)
      BY <1>1, Zenon DEF Ahead
    <3> HIDE DEF u
    <3>3. TakesNone(R, u, read(R, u)) \/ TakesOne(R, u, read(R, u))
      BY <3>1, <3>2, ReadCases
    <3> QED BY <3>3, Zenon DEF u
  <2> HIDE DEF X
  <2>2. ~TakesNone(R, TRUE, X)
    BY <1>5, TakesNothing, Zenon
  <2>3. PICK p \in R.searched .. Len(R.buf), len \in Nat, consumed \in Nat,
             message \in Seq(Byte), diagnostics \in Seq(LogDiagnostic), separator \in Byte :
            /\ p = PrefixLen(R.buf, Sought(R, TRUE)) /\ Sought(R, TRUE).kind = "Found"
            /\ 1 <= len /\ len <= consumed /\ p + consumed <= Len(R.buf)
            /\ X = [reader |-> Reader(Slice(R.buf, p + consumed, Len(R.buf)), 0, FALSE,
                                      R.dropped + (p + consumed), R.override),
                    record |-> <<Record(Slice(R.buf, Excess(p), p), message, diagnostics,
                                        R.dropped + p, len, consumed, separator)>>]
            /\ message \in {Slice(R.buf, p, p + len), Restored(Slice(R.buf, p, p + len))}
            /\ Slice(R.buf, p + len, p + consumed) \in {<<>>, <<LF>>, <<CR, LF>>}
            /\ (\E i \in 1 .. Len(diagnostics) : diagnostics[i] = "PrefixTruncated")
                 <=> (R.prefix_truncated \/ Excess(p) > 0)
    BY <2>1, <2>2, Zenon DEF TakesOne
  <2> DEFINE k == p + consumed
  <2>4. X.reader = After(R, k)
    <3> DEFINE A == After(R, k)
               r == <<Record(Slice(R.buf, Excess(p), p), message, diagnostics,
                             R.dropped + p, len, consumed, separator)>>
    <3>1. X = [reader |-> A, record |-> r]
      BY <2>3, Zenon DEF After
    <3> HIDE DEF A, r
    <3>2. X.reader = A
      BY <3>1
    <3> QED BY <3>2 DEF A
  <2>5. k \in 0 .. Len(l) - R.dropped
    <3>1. /\ p \in R.searched .. Len(R.buf) /\ consumed \in Nat
          /\ p + consumed <= Len(R.buf)
      BY <2>3, Zenon
    <3>2. /\ Len(R.buf) = Len(l) - d /\ R.dropped = d /\ Len(R.buf) \in Nat
          /\ R.searched \in Nat
      <4> HIDE DEF L
      <4> QED BY <1>1 DEF Ahead, ReaderOK
    <3> QED BY <3>1, <3>2
  <2> HIDE DEF k
  <2>6. Lift(l, X.reader) = X.reader
    <3>1. Lift(l, After(R, k)) = After(L, k)
      BY <1>1, <2>5, LiftAfter
    <3> HIDE DEF L
    <3> QED BY <1>1, <2>4, <3>1, Zenon
  <2> HIDE DEF F
  <2>7. F[L] = X.record \o F[Lift(l, X.reader)]
    BY <1>1, <1>2, <1>5, <2>6, Zenon
  <2> QED BY <2>7, Zenon DEF ReadsOn, F, L, X
<1> QED BY <1>4, <1>5, Zenon

\* The records of the log, given what was read of it and what is left.
Continues(l, s, Q, rs, all) ==
  \/ Matters(l, all)
  \/ all = rs \o RecordsFrom(s)[Lift(l, Q)]

\* What a read adds to the records is gone from what is left.
LEMMA ReadContinues ==
  ASSUME NEW s \in Byte \cup {None}, NEW l, NEW R, Lift(l, R) \in ReadersOf(s), NEW X,
         Lift(l, X.reader) \in ReadersOf(s), X.record \in Seq(LogRecord),
         NEW rs \in Seq(LogRecord), NEW all, Continues(l, s, R, rs, all), ReadsOn(l, s, R, X)
  PROVE  Continues(l, s, X.reader, rs \o X.record, all)
<1> DEFINE u == RecordsFrom(s)[Lift(l, R)]
           v == RecordsFrom(s)[Lift(l, X.reader)]
           w == X.record
<1>1. u \in Seq(LogRecord) /\ v \in Seq(LogRecord) /\ w \in Seq(LogRecord)
  BY FollowIs
<1>2. CASE Matters(l, all)
  BY <1>2, Zenon DEF Continues
<1>3. CASE all = rs \o u /\ u = w \o v
  <2> HIDE DEF u, v, w
  <2>1. rs \o (w \o v) = (rs \o w) \o v
    BY <1>1
  <2>2. all = (rs \o w) \o v
    BY <1>3, <2>1, Zenon
  <2> QED BY <2>2, Zenon DEF Continues, v, w
<1>4. CASE all = rs \o u /\ Matters(l, u)
  <2> HIDE DEF u
  <2>1. Matters(l, all)
    BY <1>1, <1>4, MattersLater
  <2> QED BY <2>1, Zenon DEF Continues
<1>5. /\ Matters(l, all) \/ all = rs \o u
      /\ u = w \o v \/ Matters(l, u)
  BY Zenon DEF Continues, ReadsOn
<1> QED BY <1>2, <1>3, <1>4, <1>5, Zenon

\* The reader that the variables are.
Current == Reader(buf, searched, prefix_truncated, dropped, given_separator)

SplitInv == Continues(log, given_separator, Current, records, RecordsAtOnce)

\* Nothing of what a reader has in its buffer makes a difference to the rest.
LEMMA ContinuesIs ==
  ASSUME NEW l, NEW s, NEW Q, NEW R, NEW rs, NEW all, Continues(l, s, Q, rs, all),
         R.searched = Q.searched, R.prefix_truncated = Q.prefix_truncated,
         R.dropped = Q.dropped, R.override = Q.override
  PROVE  Continues(l, s, R, rs, all)
BY Zenon DEF Continues, Lift

\* At first everything is left.
LEMMA SplitInit == Init => SplitInv
<1> SUFFICES ASSUME Init PROVE SplitInv
  OBVIOUS
<1> DEFINE l == [text |-> log, separator |-> given_separator]
           F == RecordsFrom(given_separator)
           W == Reader(log, 0, FALSE, 0, given_separator)
<1>1. l \in Logs /\ LogInv(log, given_separator, fed, buf, searched, prefix_truncated,
                           dropped, records)
  BY InitInv DEF IInv
<1>2. RecordsAtOnce = F[W]
  <2>1. RecordsAtOnce = RecordsOf(l)
    BY <1>1, Zenon DEF RecordsAtOnce, AtOnce
  <2>2. l.text = log /\ l.separator = given_separator
    OBVIOUS
  <2> HIDE DEF l
  <2>3. RecordsOf(l) = RecordsFrom(l.separator)[Reader(l.text, 0, FALSE, 0, l.separator)]
    BY RecordsOfIs
  <2> QED BY <2>1, <2>2, <2>3, Zenon
<1>3. /\ searched = 0 /\ prefix_truncated = FALSE /\ dropped = 0 /\ records = <<>>
  BY DEF Init
<1>4. log \in Seq(Byte) /\ given_separator \in Byte \cup {None}
  BY <1>1 DEF LogInv
<1>5. Slice(log, 0, Len(log)) = log
  <2> DEFINE t == Slice(log, 0, Len(log))
  <2>1. 0 \in Nat /\ Len(log) \in Nat /\ 0 <= Len(log) /\ Len(log) <= Len(log)
        /\ Len(log) - 0 = Len(log)
    BY <1>4
  <2>2. /\ t \in Seq(Byte) /\ Len(t) = Len(log) - 0
        /\ \A k \in 1 .. Len(log) - 0 : t[k] = log[0 + k]
    BY <1>4, <2>1, ByteSlices, Zenon
  <2> HIDE DEF t
  <2>3. Len(t) = Len(log) /\ \A k \in 1 .. Len(log) : t[k] = log[k]
    BY <2>1, <2>2
  <2>4. t = log
    BY <1>4, <2>2, <2>3, SeqEqual
  <2> QED BY <2>4 DEF t
<1>6. Lift(log, Current) = W
  <2>1. /\ Current.searched = searched /\ Current.prefix_truncated = prefix_truncated
        /\ Current.dropped = dropped /\ Current.override = given_separator
    BY ReaderFields DEF Current
  <2> QED BY <1>3, <1>5, <2>1, Zenon DEF Lift
<1>7. Lift(log, Current) \in ReadersOf(given_separator)
  BY <1>1, AheadIs DEF Current
<1>8. F[W] \in Seq(LogRecord)
  BY <1>4, <1>6, <1>7, FollowIs
<1> HIDE DEF F, W
<1>9. F[W] = <<>> \o F[W]
  BY <1>8
<1> QED BY <1>2, <1>3, <1>6, <1>9, Zenon DEF SplitInv, Continues, F

\* A read keeps SplitInv, and so does every step.
LEMMA SplitRead ==
  ASSUME IInv, StartsInv, SplitInv, NEW at_end \in BOOLEAN, at_end <=> finished, Read(at_end)
  PROVE  SplitInv'
<1> DEFINE R == Reader(buf, searched, prefix_truncated, dropped, given_separator)
           X == read(R, at_end)
           C == Reader(X.reader.buf, X.reader.searched, X.reader.prefix_truncated,
                       X.reader.dropped, given_separator)
<1>1. ReadTo(X)
  BY Zenon DEF Read
<1>2. LogInv(log, given_separator, fed, buf, searched, prefix_truncated, dropped, records)
  BY DEF IInv
<1>3. LogInv(log, given_separator, fed, X.reader.buf, X.reader.searched,
             X.reader.prefix_truncated, X.reader.dropped, records \o X.record)
  BY <1>2, ReadKeeps, Zenon
<1>4. /\ SearchInv(log, given_separator, X.reader.searched, X.reader.dropped,
                   records \o X.record)
      /\ at_end /\ X.record = <<>> => X.reader.dropped + X.reader.searched = Len(log)
  <2>1. SearchInv(log, given_separator, searched, dropped, records)
    BY DEF StartsInv
  <2>2. at_end => fed = Len(log)
    BY DEF StartsInv
  <2> QED BY <1>2, <2>1, <2>2, ReadFinds
<1>5. /\ Lift(log, R) \in ReadersOf(given_separator) /\ given_separator \in Byte \cup {None}
      /\ log \in Seq(Byte) /\ Ahead(R, Lift(log, R)) /\ R.override = given_separator
  BY <1>2, AheadIs
<1>6. Lift(log, C) \in ReadersOf(given_separator)
  <2> HIDE DEF X
  <2> QED BY <1>3, AheadIs
<1>d. TakesNone(R, at_end, X) \/ TakesOne(R, at_end, X)
  <2>1. ReaderOK(R)
    BY <1>5, Zenon DEF Ahead
  <2> HIDE DEF R
  <2> QED BY <2>1, ReadCases
<1>7. X.reader.override = given_separator
  <2>2. R.override = given_separator
    BY <1>5
  <2> HIDE DEF X, R
  <2>3. X.reader.override = R.override
    BY <1>d DEF TakesNone, TakesOne, CapPrefix, Reader
  <2> QED BY <2>2, <2>3
<1>8. Lift(log, X.reader) = Lift(log, C)
  <2>1. /\ C.searched = X.reader.searched /\ C.prefix_truncated = X.reader.prefix_truncated
        /\ C.dropped = X.reader.dropped /\ C.override = X.reader.override
    <3> HIDE DEF X
    <3> QED BY <1>7, ReaderFields
  <2> HIDE DEF C, X
  <2> QED BY <2>1, Zenon DEF Lift
<1>9. ReadsOn(log, given_separator, R, X)
  <2>1. CASE ~at_end
    <3>1. X = read(R, FALSE)
      BY <2>1, Zenon
    <3>2. ReadsOn(log, given_separator, R, read(R, FALSE))
      BY <1>2, <1>5, NextReads
    <3> QED BY <3>1, <3>2, Zenon
  <2>2. CASE at_end
    <3>1. X = read(R, TRUE)
      BY <2>2, Zenon
    <3>2. fed = Len(log)
      BY <2>2 DEF StartsInv
    <3>3. X.record = <<>> => RecordsFrom(given_separator)[Lift(log, X.reader)] = <<>>
      <4> SUFFICES ASSUME X.record = <<>>
                   PROVE  RecordsFrom(given_separator)[Lift(log, X.reader)] = <<>>
        BY Zenon
      <4> HIDE DEF X
      <4>1. X.reader.dropped + X.reader.searched = Len(log)
        BY <1>4, <2>2, Zenon
      <4>2. X.reader.dropped \in 0 .. Len(log)
        BY <1>3 DEF LogInv
      <4>3. Lift(log, X.reader) \in ReadersOf(given_separator)
        BY <1>6, <1>8, Zenon
      <4> QED BY <1>5, <4>1, <4>2, <4>3, NothingToCome
    <3>4. read(R, TRUE).record = <<>>
            => RecordsFrom(given_separator)[Lift(log, read(R, TRUE).reader)] = <<>>
      BY <3>1, <3>3, Zenon
    <3>5. ReadsOn(log, given_separator, R, read(R, TRUE))
      <4>1. R = Reader(buf, searched, prefix_truncated, dropped, given_separator)
        OBVIOUS
      <4> HIDE DEF R
      <4> QED BY <1>2, <3>2, <3>4, <4>1, DrainReads
    <3> QED BY <3>1, <3>5, Zenon
  <2> QED BY <2>1, <2>2, Zenon
<1> HIDE DEF X
<1>10. X.record \in Seq(LogRecord) /\ records \in Seq(LogRecord)
  <2>1. records \in Seq(LogRecord)
    BY <1>2 DEF LogInv
  <2>2. ReaderOK(R)
    BY <1>5, Zenon DEF Ahead
  <2> HIDE DEF R
  <2>3. Taken(given_separator, R, X)
    BY <1>5, <1>d, <2>2, TakenIs
  <2> QED BY <2>1, <2>3 DEF Taken
<1>11. Continues(log, given_separator, R, records, RecordsAtOnce)
  BY Zenon DEF SplitInv, Current
<1>12. Continues(log, given_separator, X.reader, records \o X.record, RecordsAtOnce)
  <2>1. Lift(log, X.reader) \in ReadersOf(given_separator)
    BY <1>6, <1>8, Zenon
  <2> HIDE DEF R
  <2> QED BY <1>5, <1>9, <1>10, <1>11, <2>1, ReadContinues
<1>13. Continues(log, given_separator, C, records \o X.record, RecordsAtOnce)
  <2> HIDE DEF C
  <2> QED BY <1>8, <1>12, Zenon DEF Continues
<1>14. /\ buf' = X.reader.buf /\ searched' = X.reader.searched
       /\ prefix_truncated' = X.reader.prefix_truncated /\ dropped' = X.reader.dropped
       /\ records' = records \o X.record /\ log' = log /\ given_separator' = given_separator
  BY <1>1 DEF ReadTo
<1>15. RecordsAtOnce' = RecordsAtOnce
  BY <1>14 DEF RecordsAtOnce
<1>16. Current' = C
  BY <1>14, Zenon DEF Current
<1> HIDE DEF C
<1> QED BY <1>13, <1>14, <1>15, <1>16, Zenon DEF SplitInv

LEMMA SplitNext == IInv /\ StartsInv /\ SplitInv /\ [Next]_vars => SplitInv'
<1> SUFFICES ASSUME IInv, StartsInv, SplitInv, [Next]_vars PROVE SplitInv'
  OBVIOUS
<1>1. ASSUME /\ log' = log /\ given_separator' = given_separator /\ searched' = searched
             /\ prefix_truncated' = prefix_truncated /\ dropped' = dropped
             /\ records' = records
      PROVE  SplitInv'
  <2>1. RecordsAtOnce' = RecordsAtOnce
    BY <1>1 DEF RecordsAtOnce
  <2>2. /\ Current.searched = searched /\ Current.prefix_truncated = prefix_truncated
        /\ Current.dropped = dropped /\ Current.override = given_separator
    BY ReaderFields DEF Current
  <2> DEFINE N == Reader(buf', searched, prefix_truncated, dropped, given_separator)
  <2>3. /\ N.searched = searched /\ N.prefix_truncated = prefix_truncated
        /\ N.dropped = dropped /\ N.override = given_separator
    BY ReaderFields
  <2>4. Current' = N
    BY <1>1, Zenon DEF Current
  <2> HIDE DEF N
  <2>5. Continues(log, given_separator, N, records, RecordsAtOnce)
    BY <2>2, <2>3, ContinuesIs, Zenon DEF SplitInv
  <2> QED BY <1>1, <2>1, <2>4, <2>5, Zenon DEF SplitInv
<1>2. ASSUME NEW n \in Chunks, feed(n) PROVE SplitInv'
  BY <1>1, <1>2 DEF feed
<1>3. CASE next_record
  <2>1. FALSE \in BOOLEAN /\ (FALSE <=> finished) /\ Read(FALSE)
    BY <1>3 DEF next_record
  <2> QED BY <2>1, SplitRead
<1>4. CASE finish
  BY <1>1, <1>4 DEF finish
<1>5. CASE drain
  <2>1. TRUE \in BOOLEAN /\ (TRUE <=> finished) /\ Read(TRUE)
    BY <1>5 DEF drain
  <2> QED BY <2>1, SplitRead
<1>6. CASE UNCHANGED vars
  BY <1>1, <1>6 DEF vars
<1> QED BY <1>2, <1>3, <1>4, <1>5, <1>6 DEF Next

\* What SplitInv says of the records.
LEMMA SplitShows == IInv /\ StartsInv /\ SplitInv => ChunkInvariant
<1> SUFFICES ASSUME IInv, StartsInv, SplitInv PROVE ChunkInvariant
  OBVIOUS
<1> DEFINE all == RecordsAtOnce
           toCome == RecordsFrom(given_separator)[Lift(log, Current)]
<1>1. /\ LogInv(log, given_separator, fed, buf, searched, prefix_truncated, dropped, records)
      /\ records \in Seq(LogRecord)
  BY DEF IInv, LogInv
<1>2. /\ Lift(log, Current) \in ReadersOf(given_separator) /\ log \in Seq(Byte)
      /\ given_separator \in Byte \cup {None} /\ dropped \in 0 .. Len(log)
  BY <1>1, AheadIs DEF Current
<1>3. toCome \in Seq(LogRecord)
  BY <1>2, FollowIs
<1>4. CASE Matters(log, all)
  BY <1>4, Zenon DEF Matters, SplitMatters, ChunkInvariant
<1>5. CASE all = records \o toCome
  <2> HIDE DEF all
  <2>1. IsPrefixOf(records, all)
    <3> HIDE DEF toCome
    <3> QED BY <1>1, <1>3, <1>5 DEF IsPrefixOf
  <2>2. ASSUME Drained PROVE records = all
    <3>1. /\ Current.searched = searched /\ Current.dropped = dropped
      BY ReaderFields DEF Current
    <3>2. Current.dropped + Current.searched = Len(log) /\ Current.dropped \in 0 .. Len(log)
      BY <1>2, <2>2, <3>1 DEF StartsInv
    <3>3. toCome = <<>>
      BY <1>2, <3>2, NothingToCome
    <3> HIDE DEF toCome
    <3>4. records \o <<>> = records
      BY <1>1
    <3> QED BY <1>5, <3>3, <3>4, Zenon
  <2>3. SplittingReadsTheSame(all)
    BY <2>1, <2>2, Zenon DEF SplittingReadsTheSame
  <2> QED BY <2>3, Zenon DEF ChunkInvariant, all
<1> QED BY <1>4, <1>5, Zenon DEF SplitInv, Continues

\* "Feeding a log in two pieces, split at every byte, reads the same records as
\* feeding it whole": in however many pieces a log comes, and whenever
\* next_record is called, the records are those of the log read at once, unless
\* one of these is of a message of which StatesLength, LengthOfText or a CR
\* that fills it says where it is split.
THEOREM SplittingChangesNothing == Spec => []ChunkInvariant
<1>1. Spec => []IInv /\ []StartsInv
  <2>1. Spec => []IInv
    BY Invariance
  <2>2. Spec => []StartsInv
    BY <2>1, StartsInit, StartsNext, PTL DEF Spec
  <2> QED BY <2>1, <2>2, PTL
<1>2. Spec => []SplitInv
  BY <1>1, SplitInit, SplitNext, PTL DEF Spec
<1> QED BY <1>1, <1>2, SplitShows, PTL

-----------------------------------------------------------------------------
(* Python's reader. *)

\* The Python reader, called directly or by the generator, takes no step that
\* the reader does not: what is proved of Spec holds of it.
THEOREM PythonReadsTheLog == PythonSpec => Spec
<1>1. PythonInit => Init
  BY DEF PythonInit
<1>2. [PythonNext]_<<vars, pvars>> => [Next]_vars
  <2> SUFFICES ASSUME [PythonNext]_<<vars, pvars>> PROVE [Next]_vars
    OBVIOUS
  <2>1. CASE CallFeed
    BY <2>1 DEF CallFeed, Next
  <2>2. CASE CallFinish
    BY <2>2 DEF CallFinish, Next
  <2>3. CASE CallFinished
    BY <2>3 DEF CallFinished, vars
  <2>4. CASE CallNextRecord
    BY <2>4 DEF CallNextRecord, Next
  <2>5. CASE ReadChunk
    BY <2>5 DEF ReadChunk, Next
  <2>6. CASE AtEndOfFile
    BY <2>6 DEF AtEndOfFile, Next
  <2>7. CASE YieldHeld
    BY <2>7 DEF YieldHeld
  <2>8. CASE Collect
    BY <2>8 DEF Collect, Next
  <2>9. CASE Collected
    BY <2>9 DEF Collected
  <2>10. CASE UNCHANGED <<vars, pvars>>
    BY <2>10
  <2> QED BY <2>1, <2>2, <2>3, <2>4, <2>5, <2>6, <2>7, <2>8, <2>9, <2>10 DEF PythonNext
<1> QED BY <1>1, <1>2, PTL DEF PythonSpec, Spec

-----------------------------------------------------------------------------
(* What Python is given. *)

Shown == {convert(r) : r \in LogRecord}

\* g is what was given of the records rs: the first Len(g), converted.
GivenOf(g, rs) ==
  /\ g \in Seq(Shown) /\ rs \in Seq(LogRecord) /\ Len(g) <= Len(rs)
  /\ \A i \in 1 .. Len(g) : g[i] = convert(rs[i])

\* Records are converted one by one.
LEMMA ConvertedIs ==
  ASSUME NEW rs \in Seq(LogRecord)
  PROVE  /\ Converted(rs) \in Seq(Shown) /\ Len(Converted(rs)) = Len(rs)
         /\ \A i \in 1 .. Len(rs) : Converted(rs)[i] = convert(rs[i])
<1> DEFINE g == Converted(rs)
<1>1. Len(rs) \in Nat /\ g = [i \in 1 .. Len(rs) |-> convert(rs[i])]
  BY DEF Converted
<1>2. \A i \in 1 .. Len(rs) : convert(rs[i]) \in Shown
  <2>1. \A i \in 1 .. Len(rs) : rs[i] \in LogRecord
    BY ElementOfSeq
  <2> QED BY <2>1, Zenon DEF Shown
<1>3. \A i \in 1 .. Len(rs) : g[i] = convert(rs[i]) /\ g[i] \in Shown
  BY <1>1, <1>2, Zenon
<1> HIDE DEF g
<1>4. DOMAIN g = 1 .. Len(rs) /\ g = [i \in DOMAIN g |-> g[i]]
  BY <1>1, Zenon
<1>5. g \in [1 .. Len(rs) -> Shown]
  BY <1>3, <1>4, Zenon
<1>6. g \in Seq(Shown)
  BY <1>1, <1>5
<1>7. Len(g) = Len(rs)
  BY <1>1, <1>4, <1>6
<1> QED BY <1>3, <1>6, <1>7, Zenon DEF g

\* More is read, and not yet given.
LEMMA GivenStill ==
  ASSUME NEW g, NEW rs, GivenOf(g, rs), NEW w \in Seq(LogRecord)
  PROVE  GivenOf(g, rs \o w)
BY DEF GivenOf

\* w is what is given next of what was not, up to the k-th record.
NextOf(w, g, rs, k) ==
  /\ w = Converted(SubSeq(rs, Len(g) + 1, k))
  /\ k \in Len(g) .. Len(rs)

NextGiven(w, g, rs, k) ==
  /\ w \in Seq(Shown) /\ Len(w) = k - Len(g)
  /\ \A i \in 1 .. k - Len(g) : w[i] = convert(rs[Len(g) + i])
  /\ GivenOf(g \o w, rs) /\ Len(g \o w) = k

\* What is given next was not given before, and is in order.
LEMMA GivenNext ==
  ASSUME NEW g, NEW rs, NEW k, NEW w, GivenOf(g, rs), NextOf(w, g, rs, k)
  PROVE  NextGiven(w, g, rs, k)
<1> DEFINE m == Len(g)
           n == k - m
           u == SubSeq(rs, m + 1, k)
<1>1. /\ g \in Seq(Shown) /\ rs \in Seq(LogRecord) /\ m \in Nat /\ Len(rs) \in Nat
      /\ n \in Nat /\ m + n <= Len(rs) /\ m + n = k /\ k \in Nat
  BY DEF GivenOf, NextOf
<1>0. \A i \in 1 .. m : g[i] = convert(rs[i])
  BY Zenon DEF GivenOf
<1>2. /\ u \in Seq(LogRecord) /\ Len(u) = n /\ \A i \in 1 .. n : u[i] = rs[m + i]
  <2> HIDE DEF m
  <2>1. u \in Seq(LogRecord) /\ Len(u) = n
    BY <1>1
  <2>2. \A i \in 1 .. n : u[i] = rs[m + i]
    BY <1>1
  <2> QED BY <2>1, <2>2
<1>3. w \in Seq(Shown) /\ Len(w) = n /\ \A i \in 1 .. n : w[i] = convert(rs[m + i])
  <2>0. w = Converted(u)
    BY Zenon DEF NextOf
  <2> HIDE DEF u, n, m
  <2>1. w \in Seq(Shown) /\ Len(w) = n /\ \A i \in 1 .. n : w[i] = convert(u[i])
    BY <1>2, <2>0, ConvertedIs, Zenon
  <2> QED BY <1>2, <2>1, Zenon
<1> HIDE DEF u, n
<1>4. g \o w \in Seq(Shown) /\ Len(g \o w) = m + n
  <2>1. g \in Seq(Shown) /\ w \in Seq(Shown) /\ Len(w) = n /\ m = Len(g)
    BY <1>1, <1>3, Zenon
  <2> HIDE DEF m
  <2> QED BY <2>1
<1>5. \A i \in 1 .. m + n : (g \o w)[i] = convert(rs[i])
  <2> TAKE i \in 1 .. m + n
  <2>0. g \in Seq(Shown) /\ w \in Seq(Shown) /\ m = Len(g) /\ Len(w) = n /\ m \in Nat /\ n \in Nat
    BY <1>1, <1>3, Zenon
  <2> HIDE DEF m
  <2>1. CASE i <= m
    <3>1. i \in 1 .. m /\ (g \o w)[i] = g[i]
      BY <2>0, <2>1
    <3>2. g[i] = convert(rs[i])
      BY <1>0, <3>1, Zenon
    <3> QED BY <3>1, <3>2, Zenon
  <2>2. CASE i > m
    <3> DEFINE j == i - m
    <3>1. j \in 1 .. n /\ m + j = i /\ (g \o w)[i] = w[j]
      BY <2>0, <2>2
    <3> HIDE DEF j
    <3>2. w[j] = convert(rs[m + j])
      BY <1>3, <3>1, Zenon
    <3>3. (g \o w)[i] = w[j] /\ rs[m + j] = rs[i]
      BY <3>1, Zenon
    <3> QED BY <3>2, <3>3, Zenon
  <2> QED BY <2>0, <2>1, <2>2
<1>6. GivenOf(g \o w, rs)
  <2>1. \A i \in 1 .. Len(g \o w) : (g \o w)[i] = convert(rs[i])
    BY <1>4, <1>5, Zenon
  <2>2. Len(g \o w) <= Len(rs)
    BY <1>1, <1>4
  <2> QED BY <1>1, <1>4, <2>1, <2>2, Zenon DEF GivenOf
<1>7. Len(w) = k - Len(g) /\ Len(g \o w) = k
  <2>1. Len(w) = k - Len(g)
    BY <1>3 DEF n
  <2>2. Len(g \o w) = k
    BY <1>1, <1>4, Zenon
  <2> QED BY <2>1, <2>2
<1> QED BY <1>3, <1>6, <1>7, Zenon DEF NextGiven, n, m

\* A read adds to the records.
LEMMA ReadAdds ==
  ASSUME IInv, NEW at_end \in BOOLEAN, Read(at_end)
  PROVE  \E w \in Seq(LogRecord) : records' = records \o w
<1> DEFINE R == Reader(buf, searched, prefix_truncated, dropped, given_separator)
           X == read(R, at_end)
<1>1. records' = records \o X.record
  BY Zenon DEF Read, ReadTo
<1>2. LogInv(log, given_separator, fed, buf, searched, prefix_truncated, dropped, records)
  BY DEF IInv
<1>3. /\ Ahead(R, Lift(log, R)) /\ R.override = given_separator
      /\ given_separator \in Byte \cup {None}
  BY <1>2, AheadIs
<1>4. ReaderOK(R)
  BY <1>3, Zenon DEF Ahead
<1>5. TakesNone(R, at_end, X) \/ TakesOne(R, at_end, X)
  <2> HIDE DEF R
  <2> QED BY <1>4, ReadCases
<1> HIDE DEF R, X
<1>6. Taken(given_separator, R, X)
  BY <1>3, <1>4, <1>5, TakenIs
<1>7. X.record \in Seq(LogRecord)
  BY <1>6 DEF Taken
<1> QED BY <1>1, <1>7, Zenon

\* Only while finish collects, and while the generator yields what it did, is
\* anything held that was read; and then, as at the end, nothing is read.
GivenInv ==
  /\ GivenOf(given, records)
  /\ doing \in {"nothing", "take", "finish", "yield", "end"}
  /\ doing \notin {"finish", "yield"} => Len(given) = Len(records)
  /\ doing \in {"yield", "end"} => Drained
  /\ raised => doing = "end"

\* At first nothing is read and nothing given.
LEMMA GivenInit == PythonInit /\ IInv => GivenInv
<1> SUFFICES ASSUME PythonInit, IInv PROVE GivenInv
  OBVIOUS
<1>1. given = <<>> /\ records = <<>> /\ doing = "nothing" /\ ~raised
  BY DEF PythonInit, Init
<1>2. GivenOf(<<>>, <<>>)
  BY DEF GivenOf
<1> QED BY <1>1, <1>2 DEF GivenInv

\* The records of the log read at once are records.
LEMMA AllAreRecords == ASSUME IInv PROVE RecordsAtOnce \in Seq(LogRecord)
<1> DEFINE l == [text |-> log, separator |-> given_separator]
           W == Reader(log, 0, FALSE, 0, given_separator)
<1>1. l \in Logs /\ log \in Seq(Byte) /\ given_separator \in Byte \cup {None}
  BY DEF IInv, LogInv
<1>2. W \in ReadersOf(given_separator)
  BY <1>1, ReaderIn
<1>3. RecordsFrom(given_separator)[W] \in Seq(LogRecord)
  BY <1>1, <1>2, FollowIs
<1>4. RecordsAtOnce = RecordsOf(l) /\ l.text = log /\ l.separator = given_separator
  BY <1>1, Zenon DEF RecordsAtOnce, AtOnce
<1> HIDE DEF l
<1>5. RecordsOf(l) = RecordsFrom(l.separator)[Reader(l.text, 0, FALSE, 0, l.separator)]
  BY RecordsOfIs
<1> QED BY <1>3, <1>4, <1>5, Zenon

\* One step of a caller, and what it hands over.
LEMMA GivenStep ==
  ASSUME IInv, GivenInv, [PythonNext]_<<vars, pvars>>
  PROVE  GivenInv'
<1> DEFINE n == Len(given)
           m == Len(records)
<1>1. /\ GivenOf(given, records) /\ given \in Seq(Shown) /\ records \in Seq(LogRecord)
      /\ n \in Nat /\ m \in Nat /\ n <= m
      /\ doing \in {"nothing", "take", "finish", "yield", "end"}
      /\ doing \notin {"finish", "yield"} => n = m
      /\ doing \in {"yield", "end"} => Drained
      /\ raised => doing = "end"
  BY DEF GivenInv, GivenOf
<1> HIDE DEF n, m
<1>2. given \o <<>> = given
  BY <1>1
<1>3. ASSUME UNCHANGED vars PROVE records' = records /\ (Drained => Drained')
  BY <1>3 DEF vars, Drained
  \* Steps that read nothing and give nothing.
<1>4. ASSUME doing = "nothing", doing' \in {"nothing", "take", "finish"},
             records' = records, given' = given \o <<>>, raised' = raised
      PROVE  GivenInv'
  BY <1>1, <1>2, <1>4 DEF GivenInv, n, m
<1>5. CASE CallFeed
  <2>1. doing = "nothing" /\ records' = records
    BY <1>5 DEF CallFeed, Calls, feed
  <2>2. doing' = "nothing" /\ given' = given \o <<>> /\ raised' = raised
    BY <1>5 DEF CallFeed, Step
  <2> QED BY <1>4, <2>1, <2>2
<1>6. CASE CallFinish
  <2>1. doing = "nothing" /\ records' = records
    BY <1>6 DEF CallFinish, Calls, finish
  <2>2. doing' = "finish" /\ given' = given \o <<>> /\ raised' = raised
    BY <1>6 DEF CallFinish, Step
  <2> QED BY <1>4, <2>1, <2>2
<1>7. CASE ReadChunk
  <2>1. doing = "nothing" /\ records' = records
    BY <1>7 DEF ReadChunk, feed
  <2>2. doing' = "take" /\ given' = given \o <<>> /\ raised' = raised
    BY <1>7 DEF ReadChunk, Step
  <2> QED BY <1>4, <2>1, <2>2
<1>8. CASE AtEndOfFile
  <2>1. doing = "nothing" /\ records' = records
    BY <1>8 DEF AtEndOfFile, finish
  <2>2. doing' = "finish" /\ given' = given \o <<>> /\ raised' = raised
    BY <1>8 DEF AtEndOfFile, Step
  <2> QED BY <1>4, <2>1, <2>2
<1>9. CASE CallFinished
  <2>1. doing = "end" /\ doing' = "end" /\ given' = given /\ UNCHANGED vars
    BY <1>9 DEF CallFinished
  <2> QED BY <1>1, <1>3, <2>1 DEF GivenInv, n, m
<1>10. CASE CallNextRecord
  <2> DEFINE w == Converted(SubSeq(records', Len(records) + 1, Len(records')))
  <2>1. /\ doing \in {"nothing", "take"} /\ next_record /\ given' = given \o w
        /\ doing' \in {"nothing", "take"} /\ raised' = raised
    BY <1>10 DEF CallNextRecord, Calls, Step
  <2>2. PICK u \in Seq(LogRecord) : records' = records \o u
    <3>1. FALSE \in BOOLEAN /\ Read(FALSE)
      BY <2>1 DEF next_record
    <3> QED BY <3>1, ReadAdds
  <2> DEFINE rs == records \o u
             k == Len(u)
  <2>3. GivenOf(given, rs)
    BY <1>1, GivenStill
  <2>4. n = m /\ Len(rs) = m + k /\ k \in Nat
    BY <1>1, <2>1 DEF m
  <2>5. Len(rs) \in Len(given) .. Len(rs)
    <3> HIDE DEF rs, k
    <3> QED BY <1>1, <2>4 DEF n
  <2>6. w = Converted(SubSeq(rs, Len(given) + 1, Len(rs)))
    <3>1. Len(records) = Len(given)
      BY <2>4 DEF n, m
    <3> QED BY <2>2, <3>1, Zenon
  <2> HIDE DEF w, rs, k
  <2>7. GivenOf(given \o w, rs) /\ Len(given \o w) = Len(rs)
    <3>1. NextOf(w, given, rs, Len(rs))
      BY <2>5, <2>6, Zenon DEF NextOf
    <3>2. NextGiven(w, given, rs, Len(rs))
      BY <2>3, <3>1, GivenNext, Zenon
    <3> QED BY <3>2, Zenon DEF NextGiven
  <2>8. GivenOf(given', records') /\ Len(given') = Len(records')
    BY <2>1, <2>2, <2>7, Zenon DEF rs
  <2> QED BY <1>1, <2>1, <2>8 DEF GivenInv
<1>11. CASE Collect
  <2>1. /\ doing = "finish" /\ doing' = "finish" /\ drain /\ given' = given \o <<>>
        /\ raised' = raised
    BY <1>11 DEF Collect, Step
  <2>2. PICK u \in Seq(LogRecord) : records' = records \o u
    <3>1. TRUE \in BOOLEAN /\ Read(TRUE)
      BY <2>1 DEF drain
    <3> QED BY <3>1, ReadAdds
  <2>3. GivenOf(given', records')
    BY <1>1, <1>2, <2>1, <2>2, GivenStill
  <2> QED BY <1>1, <2>1, <2>3 DEF GivenInv
  \* Steps that give of what is held.
<1>12. /\ Held \in Seq(Shown) /\ Len(Held) = m - n
       /\ n < m => Held[1] = convert(records[n + 1])
       /\ GivenOf(given \o Held, records) /\ Len(given \o Held) = Len(records)
  <2>1. NextOf(Held, given, records, m)
    <3>1. m \in n .. m
      BY <1>1
    <3> QED BY <3>1, Zenon DEF NextOf, Held, m, n
  <2>2. NextGiven(Held, given, records, m)
    BY <1>1, <2>1, GivenNext, Zenon
  <2>3. /\ Held \in Seq(Shown) /\ Len(Held) = m - n
        /\ \A i \in 1 .. m - n : Held[i] = convert(records[n + i])
        /\ GivenOf(given \o Held, records) /\ Len(given \o Held) = m
    BY <2>2, Zenon DEF NextGiven, n
  <2>4. n < m => 1 \in 1 .. m - n
    BY <1>1
  <2>5. n < m => Held[1] = convert(records[n + 1])
    BY <2>3, <2>4, Zenon
  <2> QED BY <2>3, <2>5, Zenon DEF m
<1>13. CASE Collected /\ driven
  <2>1. /\ doing = "finish" /\ doing' = "yield" /\ given' = given \o <<>> /\ Drained
        /\ raised' = raised /\ UNCHANGED vars
    BY <1>13 DEF Collected, Step
  <2> QED BY <1>1, <1>2, <1>3, <2>1 DEF GivenInv, n, m
<1>14. CASE Collected /\ ~driven
  <2>1. /\ doing = "finish" /\ doing' = "end" /\ given' = given \o Held /\ Drained
        /\ raised' = raised /\ UNCHANGED vars
    BY <1>14 DEF Collected, Step
  <2>2. GivenOf(given', records') /\ Len(given') = Len(records')
    BY <1>3, <1>12, <2>1, Zenon
  <2> QED BY <1>1, <1>3, <2>1, <2>2 DEF GivenInv
<1>15. CASE YieldHeld
  <2>1. doing = "yield" /\ UNCHANGED vars /\ raised' = raised
    BY <1>15 DEF YieldHeld, Step
  <2>3. CASE Held = <<>>
    <3>1. doing' = "end" /\ given' = given \o <<>>
      BY <1>15, <2>3 DEF YieldHeld, Step
    <3>2. n = m
      <4>1. m - n = 0
        BY <1>12, <2>3
      <4> QED BY <1>1, <4>1
    <3> QED BY <1>1, <1>2, <1>3, <2>1, <3>1, <3>2 DEF GivenInv, n, m
  <2>4. CASE Held # <<>>
    <3>1. doing' = "yield" /\ given' = given \o <<Held[1]>>
      BY <1>15, <2>4 DEF YieldHeld, Step
    <3> DEFINE u == SubSeq(records, n + 1, n + 1)
               w == Converted(u)
    <3>2. n < m
      <4>1. Len(Held) # 0
        BY <1>12, <2>4
      <4> QED BY <1>1, <1>12, <4>1
    <3>3. u \in Seq(LogRecord) /\ Len(u) = 1 /\ u[1] = records[n + 1]
      BY <1>1, <3>2 DEF m
    <3> HIDE DEF u
    <3>4. w \in Seq(Shown) /\ Len(w) = 1 /\ w[1] = Held[1]
      <4>1. 1 \in 1 .. Len(u)
        BY <3>3
      <4>2. w \in Seq(Shown) /\ Len(w) = Len(u) /\ w[1] = convert(u[1])
        BY <3>3, <4>1, ConvertedIs, Zenon
      <4> QED BY <1>12, <3>2, <3>3, <4>2, Zenon
    <3> HIDE DEF w
    <3>5. w = <<Held[1]>>
      <4> DEFINE h == Held[1]
      <4> HIDE DEF h
      <4>1. w \in Seq(Shown) /\ Len(w) = 1 /\ w[1] = h
        BY <3>4, Zenon DEF h
      <4>2. w = <<h>>
        BY <4>1
      <4> QED BY <4>2, Zenon DEF h
    <3>7. GivenOf(given \o w, records)
      <4>1. n + 1 \in n .. m
        BY <1>1, <3>2
      <4>2. NextOf(w, given, records, n + 1)
        BY <4>1, Zenon DEF NextOf, w, u, m, n
      <4>3. NextGiven(w, given, records, n + 1)
        BY <1>1, <4>2, GivenNext, Zenon
      <4> QED BY <4>3, Zenon DEF NextGiven
    <3>6. GivenOf(given', records')
      BY <1>3, <2>1, <3>1, <3>5, <3>7, Zenon
    <3> QED BY <1>1, <1>3, <2>1, <3>1, <3>6 DEF GivenInv
  <2> QED BY <2>3, <2>4
<1>16. CASE UNCHANGED <<vars, pvars>>
  BY <1>1, <1>3, <1>16 DEF GivenInv, pvars, n, m
<1> QED BY <1>5, <1>6, <1>7, <1>8, <1>9, <1>10, <1>11, <1>13, <1>14, <1>15, <1>16
        DEF PythonNext

\* Python gets the records of the log in order and each once, from any of the
\* places that hand them over, and all of them by the end: of any log that may
\* be split anywhere.
THEOREM PythonGivesInOrder == PythonSpec => []GivenInOrder
<1>1. IInv /\ GivenInv /\ ChunkInvariant => GivenInOrder
  <2> SUFFICES ASSUME IInv, GivenInv, ChunkInvariant PROVE GivenInOrder
    OBVIOUS
  <2> DEFINE all == RecordsAtOnce
  <2>1. SplittingReadsTheSame(all) \/ SplitMatters(all)
    BY Zenon DEF ChunkInvariant
  <2>2. CASE SplitMatters(all)
    BY <2>2, Zenon DEF GivenInOrder
  <2>3. CASE SplittingReadsTheSame(all)
    <3> HIDE DEF all
    <3>1. /\ GivenOf(given, records) /\ given \in Seq(Shown) /\ records \in Seq(LogRecord)
          /\ Len(given) \in Nat /\ Len(records) \in Nat /\ Len(given) <= Len(records)
          /\ \A i \in 1 .. Len(given) : given[i] = convert(records[i])
      BY DEF GivenInv, GivenOf
    <3>2. /\ Len(records) <= Len(all) /\ \A i \in 1 .. Len(records) : records[i] = all[i]
          /\ Drained => records = all
      BY <2>3 DEF SplittingReadsTheSame, IsPrefixOf
    <3> DEFINE c == Converted(all)
    <3>a. all \in Seq(LogRecord)
      BY AllAreRecords DEF all
    <3>3. /\ c \in Seq(Shown) /\ Len(c) = Len(all)
          /\ \A i \in 1 .. Len(all) : c[i] = convert(all[i])
      BY <3>a, ConvertedIs, Zenon
    <3> HIDE DEF c
    <3>4. IsPrefixOf(given, c)
      <4>1. Len(given) <= Len(c)
        BY <3>1, <3>2, <3>3, <3>a
      <4>2. \A i \in 1 .. Len(given) : given[i] = c[i]
        <5> TAKE i \in 1 .. Len(given)
        <5>1. i \in 1 .. Len(records) /\ i \in 1 .. Len(all)
          BY <3>1, <3>2, <3>a
        <5>2. records[i] = all[i] /\ given[i] = convert(records[i])
          BY <3>1, <3>2, <5>1, Zenon
        <5> QED BY <3>3, <5>1, <5>2, Zenon
      <4> QED BY <4>1, <4>2, Zenon DEF IsPrefixOf
    <3>5. ASSUME doing = "end" \/ raised PROVE given = c
      <4>1. doing = "end"
        BY <3>5 DEF GivenInv
      <4>2. Len(given) = Len(records) /\ records = all
        BY <3>2, <4>1 DEF GivenInv
      <4>3. \A i \in 1 .. Len(given) : given[i] = c[i]
        BY <3>4, Zenon DEF IsPrefixOf
      <4>4. Len(given) = Len(c)
        BY <3>3, <4>2, Zenon
      <4> QED BY <3>1, <3>3, <4>3, <4>4, SeqEqual
    <3>6. /\ IsPrefixOf(given, Converted(all))
          /\ doing = "end" \/ raised => given = Converted(all)
      BY <3>4, <3>5, Zenon DEF c
    <3>7. RecordsAtOnce \in {RecordsAtOnce}
      OBVIOUS
    <3> QED BY <3>6, <3>7, Zenon DEF GivenInOrder, all
  <2> QED BY <2>1, <2>2, <2>3
<1>2. Spec => []IInv /\ []ChunkInvariant
  BY Invariance, SplittingChangesNothing, PTL
<1>3. PythonSpec => []IInv /\ []ChunkInvariant
  BY <1>2, PythonReadsTheLog, PTL
<1>4. PythonSpec => []GivenInv
  <2>1. PythonInit /\ IInv => GivenInv
    BY GivenInit
  <2>2. IInv /\ GivenInv /\ [PythonNext]_<<vars, pvars>> => GivenInv'
    BY GivenStep
  <2> QED BY <1>3, <2>1, <2>2, PTL DEF PythonSpec
<1> QED BY <1>1, <1>3, <1>4, PTL
=============================================================================
