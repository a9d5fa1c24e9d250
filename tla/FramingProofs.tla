---------------------------- MODULE FramingProofs ----------------------------
(***************************************************************************)
(* scan, which sees only the bytes buffered so far, against the            *)
(* declarative format of the whole stream that module Framing also gives.  *)
(***************************************************************************)
EXTENDS Framing, BytesLemmas

USE DEF PREFIX_LEN, CHECKSUM_FIELD_LEN

-----------------------------------------------------------------------------
(* The steps of scan, one by one. *)

\* parse_begin_string finds the SOH of a BeginString field, or there is none
\* where it could be, or there are not enough bytes to tell.
LEMMA BeginStringCases ==
  ASSUME NEW buf \in Seq(Byte)
  PROVE  \/ \E q \in BeginStringEnds(0) :
               /\ parse_begin_string(buf) = Ok(Slice(buf, 2, q), q + 1)
               /\ q < Len(buf) /\ At(buf, q) = SOH
               /\ \A i \in 2 .. q - 1 : At(buf, i) # SOH
         \/ /\ parse_begin_string(buf) = Incomplete
            /\ Len(buf) <= MAX_BEGIN_STRING_LEN
            /\ \A i \in 2 .. Len(buf) - 1 : At(buf, i) # SOH
         \/ /\ parse_begin_string(buf) = structural_garble("MalformedBeginString", buf)
            /\ Len(buf) > MAX_BEGIN_STRING_LEN
            /\ \A i \in BeginStringEnds(0) : At(buf, i) # SOH
<1> DEFINE search_end == Lesser(Len(buf), MAX_BEGIN_STRING_LEN + 1)
           sohs == Positions(buf, 2, search_end, SOH)
           q == Least(sohs)
<1>0. Len(buf) \in Nat /\ MAX_BEGIN_STRING_LEN \in Nat /\ MAX_BEGIN_STRING_LEN >= 5
  BY FramingAssumption
<1>1. /\ search_end \in Nat /\ search_end <= Len(buf)
      /\ search_end <= MAX_BEGIN_STRING_LEN + 1
      /\ Len(buf) > MAX_BEGIN_STRING_LEN => search_end = MAX_BEGIN_STRING_LEN + 1
  BY <1>0 DEF Lesser
<1>2. parse_begin_string(buf) =
        IF sohs # {} THEN Ok(Slice(buf, 2, q), q + 1)
        ELSE IF Len(buf) <= MAX_BEGIN_STRING_LEN THEN Incomplete
        ELSE structural_garble("MalformedBeginString", buf)
  BY DEF parse_begin_string
<1>3. CASE sohs # {}
  <2>1. q \in 2 .. search_end - 1 /\ At(buf, q) = SOH /\ \A i \in 2 .. q - 1 : At(buf, i) # SOH
    <3> HIDE DEF search_end
    <3> QED BY <1>1, <1>3, FirstPosition
  <2>2. q \in BeginStringEnds(0) /\ q < Len(buf)
    <3> HIDE DEF q, search_end
    <3> QED BY <2>1, <1>1, <1>0 DEF BeginStringEnds
  <2> QED BY <1>2, <1>3, <2>1, <2>2
<1>4. CASE sohs = {} /\ Len(buf) <= MAX_BEGIN_STRING_LEN
  <2>1. search_end = Len(buf)
    BY <1>4, <1>0 DEF Lesser
  <2>2. \A i \in 2 .. Len(buf) - 1 : At(buf, i) # SOH
    <3> HIDE DEF search_end
    <3> QED BY <2>1, <1>4, <1>0 DEF Positions
  <2> QED BY <1>2, <1>4, <2>2
<1>5. CASE sohs = {} /\ ~(Len(buf) <= MAX_BEGIN_STRING_LEN)
  <2>1. search_end = MAX_BEGIN_STRING_LEN + 1
    BY <1>1, <1>5, <1>0
  <2>2. \A i \in BeginStringEnds(0) : At(buf, i) # SOH
    <3> HIDE DEF search_end
    <3> QED BY <2>1, <1>5, <1>0 DEF Positions, BeginStringEnds
  <2> QED BY <1>2, <1>5, <2>2, <1>0
<1> QED BY <1>3, <1>4, <1>5

\* The BodyLength field after the SOH at q, as Preamble has it.
BodyLengthField(s, q, r) ==
  /\ Matches(s, q + 1, BODY_LENGTH_TAG)
  /\ r < Len(s) /\ At(s, r) = SOH
  /\ \A i \in q + 3 .. r - 1 : At(s, i) \in Digit

\* The bytes of buf after q show that no such field is there: the tag is
\* another, or MAX_BODY_LENGTH_DIGITS digits pass and no SOH, or the first SOH
\* ends a value that is empty or no number.
NoBodyLengthField(buf, q) ==
  \/ /\ q + 3 <= Len(buf)
     /\ ~Matches(buf, q + 1, BODY_LENGTH_TAG)
  \/ /\ q + 3 + MAX_BODY_LENGTH_DIGITS < Len(buf)
     /\ \A i \in q + 3 .. q + 3 + MAX_BODY_LENGTH_DIGITS : At(buf, i) # SOH
  \/ \E n \in q + 3 .. Len(buf) - 1 :
        /\ At(buf, n) = SOH
        /\ \A i \in q + 3 .. n - 1 : At(buf, i) # SOH
        /\ n = q + 3 \/ \E i \in q + 3 .. n - 1 : At(buf, i) \notin Digit

LEMMA BodyLengthCases ==
  ASSUME NEW buf \in Seq(Byte), NEW q \in BeginStringEnds(0), q < Len(buf)
  PROVE  \/ \E r \in BodyLengthEnds(q) :
               /\ parse_body_length(buf, q + 1) = Ok(Number(Slice(buf, q + 3, r)), r + 1)
               /\ BodyLengthField(buf, q, r)
               /\ Number(Slice(buf, q + 3, r)) \in Nat
         \/ /\ parse_body_length(buf, q + 1) = Incomplete
            /\ Len(buf) <= q + 3 + MAX_BODY_LENGTH_DIGITS
            /\ \A i \in q + 3 .. Len(buf) - 1 : At(buf, i) # SOH
         \/ /\ \E reason \in StructuralReason :
                 parse_body_length(buf, q + 1) = structural_garble(reason, buf)
            /\ NoBodyLengthField(buf, q)
<1> DEFINE search_end == Lesser(Len(buf), q + 3 + MAX_BODY_LENGTH_DIGITS + 1)
           sohs == Positions(buf, q + 3, search_end, SOH)
           n == Least(sohs)
           digits == Slice(buf, q + 3, n)
<1>0. /\ Len(buf) \in Nat /\ q \in Nat
      /\ MAX_BODY_LENGTH_DIGITS \in Nat /\ MAX_BODY_LENGTH_DIGITS >= 1
  BY FramingAssumption DEF BeginStringEnds
<1>1. /\ search_end \in Nat /\ search_end <= Len(buf)
      /\ search_end <= q + 4 + MAX_BODY_LENGTH_DIGITS
      /\ Len(buf) > q + 3 + MAX_BODY_LENGTH_DIGITS
           => search_end = q + 4 + MAX_BODY_LENGTH_DIGITS
  BY <1>0 DEF Lesser
<1>2. parse_body_length(buf, q + 1) =
        IF Len(buf) - (q + 1) < 2 THEN Incomplete
        ELSE IF ~Matches(buf, q + 1, BODY_LENGTH_TAG)
          THEN structural_garble("MissingBodyLength", buf)
        ELSE IF sohs = {}
          THEN IF Len(buf) <= q + 3 + MAX_BODY_LENGTH_DIGITS THEN Incomplete
               ELSE structural_garble("MalformedBodyLength", buf)
        ELSE IF Len(digits) = 0 \/ ~AllDigits(digits)
          THEN structural_garble("MalformedBodyLength", buf)
        ELSE Ok(Number(digits), n + 1)
  <2>1. (q + 1) + 2 = q + 3
    BY <1>0
  <2> QED BY <2>1, Zenon DEF parse_body_length
<1>3. CASE Len(buf) - (q + 1) < 2
  BY <1>2, <1>3, <1>0
<1>4. CASE ~(Len(buf) - (q + 1) < 2) /\ ~Matches(buf, q + 1, BODY_LENGTH_TAG)
  <2>1. parse_body_length(buf, q + 1) = structural_garble("MissingBodyLength", buf)
    BY <1>2, <1>4
  <2>2. NoBodyLengthField(buf, q)
    BY <1>4, <1>0 DEF NoBodyLengthField
  <2> QED BY <2>1, <2>2 DEF StructuralReason
<1> DEFINE Tagged == ~(Len(buf) - (q + 1) < 2) /\ Matches(buf, q + 1, BODY_LENGTH_TAG)
<1>5. CASE Tagged /\ sohs = {}
  <2>1. CASE Len(buf) <= q + 3 + MAX_BODY_LENGTH_DIGITS
    <3>1. search_end = Len(buf)
      BY <2>1, <1>0 DEF Lesser
    <3>2. \A i \in q + 3 .. Len(buf) - 1 : At(buf, i) # SOH
      <4> HIDE DEF search_end
      <4> QED BY <1>5, <3>1, <1>0 DEF Positions
    <3> QED BY <1>2, <1>5, <2>1, <3>2
  <2>2. CASE ~(Len(buf) <= q + 3 + MAX_BODY_LENGTH_DIGITS)
    <3>1. parse_body_length(buf, q + 1) = structural_garble("MalformedBodyLength", buf)
      BY <1>2, <1>5, <2>2
    <3>2. search_end = q + 4 + MAX_BODY_LENGTH_DIGITS
      BY <1>1, <2>2, <1>0
    <3>3. \A i \in q + 3 .. q + 3 + MAX_BODY_LENGTH_DIGITS : At(buf, i) # SOH
      <4> HIDE DEF search_end
      <4> QED BY <1>5, <3>2, <1>0 DEF Positions
    <3>4. NoBodyLengthField(buf, q)
      BY <3>3, <2>2, <1>0 DEF NoBodyLengthField
    <3> QED BY <3>1, <3>4 DEF StructuralReason
  <2> QED BY <2>1, <2>2
<1>6. CASE Tagged /\ sohs # {}
  <2>1. /\ n \in q + 3 .. search_end - 1 /\ At(buf, n) = SOH
        /\ \A i \in q + 3 .. n - 1 : At(buf, i) # SOH
    <3>1. q + 3 \in Nat
      BY <1>0
    <3> HIDE DEF search_end
    <3>2. search_end \in Int
      BY <1>1
    <3> QED BY <1>6, <3>1, <3>2, FirstPosition, Zenon
  <2> HIDE DEF n
  <2>2. n \in q + 3 .. Len(buf) - 1 /\ n \in Nat
    <3> HIDE DEF search_end
    <3> QED BY <1>1, <2>1, <1>0
  <2>3. /\ AllDigits(digits) <=> \A k \in q + 3 .. n - 1 : At(buf, k) \in Digit
        /\ Len(digits) = n - (q + 3)
        /\ AllDigits(digits) => digits \in Seq(Digit)
    <3>1. q + 3 \in Nat /\ q + 3 <= n /\ n <= Len(buf)
      BY <2>2, <1>0
    <3> QED BY <2>2, <3>1, SliceDigits
  <2>4. CASE Len(digits) = 0 \/ ~AllDigits(digits)
    <3>1. parse_body_length(buf, q + 1) = structural_garble("MalformedBodyLength", buf)
      <4> HIDE DEF sohs, digits
      <4> QED BY <1>2, <1>6, <2>4
    <3>2. n = q + 3 \/ \E i \in q + 3 .. n - 1 : At(buf, i) \notin Digit
      <4> HIDE DEF digits
      <4> QED BY <2>3, <2>4, <2>2, <1>0
    <3>3. NoBodyLengthField(buf, q)
      BY <3>2, <2>1, <2>2 DEF NoBodyLengthField
    <3> QED BY <3>1, <3>3 DEF StructuralReason
  <2>5. CASE ~(Len(digits) = 0 \/ ~AllDigits(digits))
    <3>1. parse_body_length(buf, q + 1) = Ok(Number(digits), n + 1)
      <4> HIDE DEF sohs, digits
      <4> QED BY <1>2, <1>6, <2>5
    <3>2. n \in BodyLengthEnds(q)
      <4>1. n >= q + 4
        <5> HIDE DEF digits
        <5> QED BY <2>2, <2>3, <2>5, <1>0
      <4>2. n <= q + 3 + MAX_BODY_LENGTH_DIGITS
        <5> HIDE DEF search_end
        <5> QED BY <2>1, <1>1, <1>0
      <4> QED BY <4>1, <4>2, <2>2, <1>0 DEF BodyLengthEnds
    <3>3. BodyLengthField(buf, q, n)
      <4>1. \A k \in q + 3 .. n - 1 : At(buf, k) \in Digit
        <5> HIDE DEF digits
        <5> QED BY <2>3, <2>5
      <4> QED BY <1>6, <2>1, <2>2, <4>1, <1>0 DEF BodyLengthField
    <3>4. Number(digits) \in Nat
      <4> HIDE DEF digits
      <4> QED BY <2>3, <2>5, NumberIsNat
    <3> QED BY <3>1, <3>2, <3>3, <3>4
  <2> QED BY <2>4, <2>5
<1> QED BY <1>3, <1>4, <1>5, <1>6

-----------------------------------------------------------------------------
(* From the buffer to the stream it is part of. *)

\* buf is what s holds from offset p on, as far as it has arrived.
Extends(s, p, buf) ==
  /\ p + Len(buf) <= Len(s)
  /\ \A k \in 1 .. Len(buf) : s[p + k] = buf[k]

LEMMA ExtendsAt ==
  ASSUME NEW s \in Seq(Byte), NEW p \in Nat, NEW buf \in Seq(Byte), Extends(s, p, buf)
  PROVE  \A i \in 0 .. Len(buf) - 1 : At(s, p + i) = At(buf, i)
<1> SUFFICES ASSUME NEW i \in 0 .. Len(buf) - 1 PROVE s[p + i + 1] = buf[i + 1]
  BY DEF At
<1>1. i + 1 \in 1 .. Len(buf) /\ p + (i + 1) = p + i + 1
  OBVIOUS
<1> QED BY <1>1 DEF Extends

\* A pattern that fits in the buffer is in the stream where it is in buf.
LEMMA ExtendsMatches ==
  ASSUME NEW s \in Seq(Byte), NEW p \in Nat, NEW buf \in Seq(Byte), Extends(s, p, buf),
         NEW pat \in Seq(Byte)
  PROVE  \A i \in Nat : i + Len(pat) <= Len(buf)
                           => (Matches(s, p + i, pat) <=> Matches(buf, i, pat))
<1> SUFFICES ASSUME NEW i \in Nat, i + Len(pat) <= Len(buf)
             PROVE  Matches(s, p + i, pat) <=> Matches(buf, i, pat)
  OBVIOUS
<1>1. \A j \in 1 .. Len(pat) : s[p + i + j] = buf[i + j]
  <2> SUFFICES ASSUME NEW j \in 1 .. Len(pat) PROVE s[p + i + j] = buf[i + j]
    OBVIOUS
  <2>1. i + j \in 1 .. Len(buf) /\ p + (i + j) = p + i + j
    OBVIOUS
  <2> QED BY <2>1 DEF Extends
<1>2. p + i + Len(pat) <= Len(s)
  BY DEF Extends
<1> QED BY <1>1, <1>2 DEF Matches

\* So is a slice.
LEMMA ExtendsSlice ==
  ASSUME NEW s \in Seq(Byte), NEW p \in Nat, NEW buf \in Seq(Byte), Extends(s, p, buf)
  PROVE  \A i, j \in Nat : i <= j /\ j <= Len(buf)
                              => Slice(s, p + i, p + j) = Slice(buf, i, j)
<1> SUFFICES ASSUME NEW i \in Nat, NEW j \in Nat, i <= j, j <= Len(buf)
             PROVE  Slice(s, p + i, p + j) = Slice(buf, i, j)
  OBVIOUS
<1>1. p + j <= Len(s) /\ \A k \in i + 1 .. j : s[p + k] = buf[k]
  BY DEF Extends
<1> QED BY <1>1, SliceEqual

\* The frame the buffer's preamble describes ends in the stream where it ends
\* in the buffer.
LEMMA ExtendsFrameEnd ==
  ASSUME NEW s \in Seq(Byte), NEW p \in Nat, NEW buf \in Seq(Byte), Extends(s, p, buf),
         NEW q \in Nat, NEW r \in Nat, q + 3 <= r, r <= Len(buf)
  PROVE  Number(Slice(buf, q + 3, r)) \in Nat
           => FrameEnd(s, p + q, p + r) = p + FrameEnd(buf, q, r)
<1>1. Slice(s, p + (q + 3), p + r) = Slice(buf, q + 3, r)
  <2>1. \A i, j \in Nat : i <= j /\ j <= Len(buf)
                            => Slice(s, p + i, p + j) = Slice(buf, i, j)
    BY ExtendsSlice, Zenon
  <2> QED BY <2>1
<1>2. p + q + 3 = p + (q + 3)
  OBVIOUS
<1> DEFINE n == Number(Slice(buf, q + 3, r))
<1>3. Number(Slice(s, p + q + 3, p + r)) = n
  BY <1>1, <1>2
<1> HIDE DEF n
<1>4. FrameEnd(s, p + q, p + r) = p + r + 1 + n + 7
  BY <1>3 DEF FrameEnd
<1>5. FrameEnd(buf, q, r) = r + 1 + n + 7
  BY DEF FrameEnd, n
<1>6. n \in Nat => FrameEnd(s, p + q, p + r) = p + FrameEnd(buf, q, r)
  BY <1>4, <1>5
<1> QED BY <1>6 DEF n

\* Where the buffer shows that no BodyLength field is, the stream has none.
LEMMA ExtendsNoBodyLength ==
  ASSUME NEW s \in Seq(Byte), NEW p \in Nat, NEW buf \in Seq(Byte), Extends(s, p, buf),
         NEW q \in Nat, NoBodyLengthField(buf, q)
  PROVE  \A r \in BodyLengthEnds(p + q) : ~BodyLengthField(s, p + q, r)
<1> SUFFICES ASSUME NEW r \in BodyLengthEnds(p + q), BodyLengthField(s, p + q, r)
             PROVE  FALSE
  OBVIOUS
<1>0. /\ Len(buf) \in Nat
      /\ MAX_BODY_LENGTH_DIGITS \in Nat /\ MAX_BODY_LENGTH_DIGITS >= 1
      /\ r \in Nat /\ r >= p + q + 4 /\ r <= p + q + 3 + MAX_BODY_LENGTH_DIGITS
  BY FramingAssumption DEF BodyLengthEnds
<1>1. \A i \in 0 .. Len(buf) - 1 : At(s, p + i) = At(buf, i)
  BY ExtendsAt
<1>2. At(s, r) = SOH /\ \A i \in p + q + 3 .. r - 1 : At(s, i) \in Digit
  BY DEF BodyLengthField
<1> DEFINE x == r - p
<1>3. x \in Nat /\ r = p + x /\ x >= q + 4 /\ x <= q + 3 + MAX_BODY_LENGTH_DIGITS
  BY <1>0
<1> HIDE DEF x
<1>4. x < Len(buf) => At(buf, x) = SOH
  BY <1>1, <1>2, <1>3, <1>0
<1>5. ASSUME NEW i \in q + 3 .. x - 1, i < Len(buf) PROVE At(buf, i) \in Digit
  <2>1. p + i \in p + q + 3 .. r - 1 /\ i \in 0 .. Len(buf) - 1
    BY <1>3, <1>5
  <2> QED BY <1>1, <1>2, <2>1
<1>6. SOH \notin Digit
  BY DEF SOH, Digit
<1>7. CASE q + 3 <= Len(buf) /\ ~Matches(buf, q + 1, BODY_LENGTH_TAG)
  <2>1. BODY_LENGTH_TAG \in Seq(Byte) /\ Len(BODY_LENGTH_TAG) = 2
    BY DEF BODY_LENGTH_TAG, Byte
  <2>2. Matches(s, p + (q + 1), BODY_LENGTH_TAG)
    <3>1. p + (q + 1) = p + q + 1
      OBVIOUS
    <3> QED BY <3>1 DEF BodyLengthField
  <2>3. q + 1 \in Nat /\ q + 1 + Len(BODY_LENGTH_TAG) <= Len(buf)
    BY <1>7, <1>0, <2>1
  <2>4. \A i \in Nat : i + Len(BODY_LENGTH_TAG) <= Len(buf)
          => (Matches(s, p + i, BODY_LENGTH_TAG) <=> Matches(buf, i, BODY_LENGTH_TAG))
    BY <2>1, ExtendsMatches, Zenon
  <2> QED BY <1>7, <2>2, <2>3, <2>4
<1>8. CASE /\ q + 3 + MAX_BODY_LENGTH_DIGITS < Len(buf)
           /\ \A i \in q + 3 .. q + 3 + MAX_BODY_LENGTH_DIGITS : At(buf, i) # SOH
  BY <1>8, <1>3, <1>4, <1>0
<1>9. ASSUME NEW n \in q + 3 .. Len(buf) - 1, At(buf, n) = SOH,
             \A i \in q + 3 .. n - 1 : At(buf, i) # SOH,
             n = q + 3 \/ \E i \in q + 3 .. n - 1 : At(buf, i) \notin Digit
      PROVE  FALSE
  <2>1. CASE n < x
    BY <1>5, <1>6, <1>9, <2>1, <1>3, <1>0
  <2>2. CASE n > x
    BY <1>4, <1>9, <2>2, <1>3, <1>0
  <2>3. CASE n = x
    BY <1>5, <1>9, <2>3, <1>3, <1>0
  <2> QED BY <2>1, <2>2, <2>3, <1>3, <1>0
<1> QED BY <1>7, <1>8, <1>9 DEF NoBodyLengthField

\* The preamble found in the buffer is one in the stream.
LEMMA ExtendsPreamble ==
  ASSUME NEW s \in Seq(Byte), NEW p \in Nat, NEW buf \in Seq(Byte), Extends(s, p, buf),
         NEW q \in BeginStringEnds(0), NEW r \in BodyLengthEnds(q)
  PROVE  Preamble(buf, 0, q, r) => /\ Preamble(s, p, p + q, p + r)
                                   /\ p + q \in BeginStringEnds(p)
                                   /\ p + r \in BodyLengthEnds(p + q)
<1>0. /\ q \in Nat /\ r \in Nat /\ q >= 2 /\ r >= q + 4
      /\ p + q \in BeginStringEnds(p) /\ p + r \in BodyLengthEnds(p + q)
  BY FramingAssumption DEF BeginStringEnds, BodyLengthEnds
<1>1. \A i \in 0 .. Len(buf) - 1 : At(s, p + i) = At(buf, i)
  BY ExtendsAt
<1>2. /\ BEGIN_STRING_PREFIX \in Seq(Byte) /\ Len(BEGIN_STRING_PREFIX) = 5
      /\ BODY_LENGTH_TAG \in Seq(Byte) /\ Len(BODY_LENGTH_TAG) = 2
  BY DEF BEGIN_STRING_PREFIX, BODY_LENGTH_TAG, Byte
<1>3. \A i \in Nat : i + Len(BEGIN_STRING_PREFIX) <= Len(buf)
        => (Matches(s, p + i, BEGIN_STRING_PREFIX) <=> Matches(buf, i, BEGIN_STRING_PREFIX))
  BY <1>2, ExtendsMatches, Zenon
<1>4. \A i \in Nat : i + Len(BODY_LENGTH_TAG) <= Len(buf)
        => (Matches(s, p + i, BODY_LENGTH_TAG) <=> Matches(buf, i, BODY_LENGTH_TAG))
  BY <1>2, ExtendsMatches, Zenon
<1>5. ASSUME Preamble(buf, 0, q, r) PROVE Preamble(s, p, p + q, p + r)
  <2>0. /\ Matches(buf, 0, BEGIN_STRING_PREFIX)
        /\ q < Len(buf) /\ At(buf, q) = SOH
        /\ \A i \in 2 .. q - 1 : At(buf, i) # SOH
        /\ Matches(buf, q + 1, BODY_LENGTH_TAG)
        /\ r < Len(buf) /\ At(buf, r) = SOH
        /\ \A i \in q + 3 .. r - 1 : At(buf, i) \in Digit
    BY <1>5 DEF Preamble
  <2>1. Matches(s, p, BEGIN_STRING_PREFIX)
    <3>1. 0 + Len(BEGIN_STRING_PREFIX) <= Len(buf)
      BY <2>0, <1>2 DEF Matches
    <3>2. Matches(s, p + 0, BEGIN_STRING_PREFIX)
      BY <3>1, <1>3, <2>0
    <3> QED BY <3>2
  <2>2. Matches(s, p + q + 1, BODY_LENGTH_TAG)
    <3>1. (q + 1) + Len(BODY_LENGTH_TAG) <= Len(buf) /\ q + 1 \in Nat
      BY <2>0, <1>0 DEF Matches
    <3>2. Matches(s, p + (q + 1), BODY_LENGTH_TAG)
      BY <3>1, <1>4, <2>0
    <3>3. p + (q + 1) = p + q + 1
      BY <1>0
    <3> QED BY <3>2, <3>3
  <2>3. /\ p + q < Len(s) /\ At(s, p + q) = SOH
        /\ p + r < Len(s) /\ At(s, p + r) = SOH
    BY <2>0, <1>0, <1>1 DEF Extends
  <2>4. ASSUME NEW i \in p + 2 .. p + q - 1 PROVE At(s, i) # SOH
    <3>1. i - p \in 2 .. q - 1 /\ i - p \in 0 .. Len(buf) - 1 /\ i = p + (i - p)
      BY <1>0, <2>0
    <3> QED BY <3>1, <1>1, <2>0
  <2>5. ASSUME NEW i \in p + q + 3 .. p + r - 1 PROVE At(s, i) \in Digit
    <3>1. i - p \in q + 3 .. r - 1 /\ i - p \in 0 .. Len(buf) - 1 /\ i = p + (i - p)
      BY <1>0, <2>0
    <3> QED BY <3>1, <1>1, <2>0
  <2> QED BY <1>0, <2>1, <2>2, <2>3, <2>4, <2>5 DEF Preamble
<1> QED BY <1>0, <1>5

\* A preamble at p is the only one: its BeginString ends at the first SOH,
\* and its BodyLength at the first byte that is no digit.
LEMMA PreambleUnique ==
  ASSUME NEW s, NEW p \in Nat,
         NEW q1 \in BeginStringEnds(p), NEW r1 \in BodyLengthEnds(q1),
         NEW q2 \in BeginStringEnds(p), NEW r2 \in BodyLengthEnds(q2),
         Preamble(s, p, q1, r1), Preamble(s, p, q2, r2)
  PROVE  q1 = q2 /\ r1 = r2
<1>0. /\ q1 \in Nat /\ q2 \in Nat /\ q1 >= p + 2 /\ q2 >= p + 2
      /\ r1 \in Nat /\ r2 \in Nat /\ r1 >= q1 + 4 /\ r2 >= q2 + 4
  BY FramingAssumption DEF BeginStringEnds, BodyLengthEnds
<1>1. /\ At(s, q1) = SOH /\ \A i \in p + 2 .. q1 - 1 : At(s, i) # SOH
      /\ At(s, r1) = SOH /\ \A i \in q1 + 3 .. r1 - 1 : At(s, i) \in Digit
      /\ At(s, q2) = SOH /\ \A i \in p + 2 .. q2 - 1 : At(s, i) # SOH
      /\ At(s, r2) = SOH /\ \A i \in q2 + 3 .. r2 - 1 : At(s, i) \in Digit
  BY DEF Preamble
<1>2. q1 = q2
  BY <1>0, <1>1
<1>3. SOH \notin Digit
  BY DEF SOH, Digit
<1> QED BY <1>0, <1>1, <1>2, <1>3

\* What find_next_begin_string skips: at least a byte, at most the buffer,
\* and no place where a frame starts, be it with bytes that are to come.
LEMMA FindNextBeginString ==
  ASSUME NEW buf \in Seq(Byte), Len(buf) >= 1,
         Len(buf) >= PREFIX_LEN \/ ~MatchesPrefix(buf, 0, Len(buf))
  PROVE  /\ find_next_begin_string(buf) \in 1 .. Len(buf)
         /\ \A s \in Seq(Byte), p \in Nat :
               Extends(s, p, buf) =>
                 \A i \in p + 1 .. p + find_next_begin_string(buf) - 1 :
                    ~Matches(s, i, BEGIN_STRING_PREFIX)
<1> DEFINE found == {i \in 1 .. Len(buf) - PREFIX_LEN : MatchesPrefix(buf, i, PREFIX_LEN)}
           max_k == Lesser(PREFIX_LEN - 1, Len(buf))
           tails == {i \in Len(buf) - max_k .. Len(buf) - 1 :
                       MatchesPrefix(buf, i, Len(buf) - i)}
           n == find_next_begin_string(buf)
<1>0. Len(buf) \in Nat /\ Len(BEGIN_STRING_PREFIX) = 5
  BY DEF BEGIN_STRING_PREFIX
<1>1. /\ max_k \in Nat /\ max_k <= Len(buf) /\ max_k <= 4
      /\ Len(buf) >= 4 => max_k = 4
      /\ Len(buf) < 4 => max_k = Len(buf)
  BY <1>0 DEF Lesser
<1>2. n = IF found # {} THEN Least(found)
          ELSE IF tails # {} THEN Least(tails)
          ELSE Len(buf)
  BY DEF find_next_begin_string
<1>3. found \subseteq Nat /\ tails \subseteq Nat
  <2> HIDE DEF max_k
  <2> QED BY <1>0, <1>1
<1>4. found # {} => n \in found /\ \A i \in found : n <= i
  <2> HIDE DEF found, tails, n
  <2> QED BY <1>2, <1>3, LeastProperties
<1>5. found = {} /\ tails # {} => n \in tails /\ \A i \in tails : n <= i
  <2> HIDE DEF found, tails, n
  <2> QED BY <1>2, <1>3, LeastProperties
<1>6. found = {} /\ tails = {} => n = Len(buf)
  BY <1>2
<1>7. n \in 1 .. Len(buf)
  <2> HIDE DEF n
  <2>1. CASE found # {}
    BY <2>1, <1>4, <1>0
  <2>2. CASE found = {} /\ tails # {}
    <3>1. n \in tails
      <4> HIDE DEF found, tails
      <4> QED BY <2>2, <1>5
    <3>2. /\ n \in Len(buf) - max_k .. Len(buf) - 1
          /\ MatchesPrefix(buf, n, Len(buf) - n)
      <4> HIDE DEF max_k
      <4> QED BY <3>1
    <3>3. CASE n = 0
      <4>1. Len(buf) < 5
        <5> HIDE DEF max_k
        <5> QED BY <3>2, <3>3, <1>0, <1>1
      <4>2. MatchesPrefix(buf, 0, Len(buf))
        BY <3>2, <3>3, <1>0
      <4> QED BY <4>1, <4>2
    <3> HIDE DEF max_k
    <3> QED BY <3>2, <3>3, <1>0, <1>1
  <2>3. CASE found = {} /\ tails = {}
    <3> HIDE DEF found, tails
    <3> QED BY <2>3, <1>6, <1>0
  <2> QED BY <2>1, <2>2, <2>3
<1>8. ASSUME NEW s \in Seq(Byte), NEW p \in Nat, Extends(s, p, buf),
             NEW i \in p + 1 .. p + n - 1, Matches(s, i, BEGIN_STRING_PREFIX)
      PROVE  FALSE
  <2> HIDE DEF n
  <2> DEFINE x == i - p
  <2>1. x \in Nat /\ i = p + x /\ x >= 1 /\ x < n /\ x < Len(buf)
    BY <1>7, <1>0
  <2> HIDE DEF x
  <2>2. \A j \in 1 .. 5 : s[p + x + j] = BEGIN_STRING_PREFIX[j]
    BY <1>8, <2>1, <1>0 DEF Matches
  <2>3. \A j \in 1 .. 5 : x + j <= Len(buf) => buf[x + j] = BEGIN_STRING_PREFIX[j]
    <3> SUFFICES ASSUME NEW j \in 1 .. 5, x + j <= Len(buf)
                 PROVE  buf[x + j] = BEGIN_STRING_PREFIX[j]
      OBVIOUS
    <3>1. x + j \in 1 .. Len(buf) /\ p + (x + j) = p + x + j
      BY <2>1
    <3>2. s[p + (x + j)] = buf[x + j]
      BY <1>8, <3>1 DEF Extends
    <3> QED BY <3>1, <3>2, <2>2
  <2>4. CASE x + 5 <= Len(buf)
    <3>1. x \in found
      BY <2>1, <2>3, <2>4, <1>0 DEF MatchesPrefix
    <3>2. n <= x
      <4> HIDE DEF found
      <4> QED BY <3>1, <1>4
    <3> QED BY <3>2, <2>1, <1>7
  <2>5. CASE x + 5 > Len(buf)
    <3>1. MatchesPrefix(buf, x, Len(buf) - x)
      BY <2>1, <2>3, <2>5, <1>0 DEF MatchesPrefix
    <3>2. x \in Len(buf) - max_k .. Len(buf) - 1
      <4> HIDE DEF max_k
      <4> QED BY <1>1, <2>1, <2>5, <1>0
    <3>3. x \in tails
      <4> HIDE DEF max_k
      <4> QED BY <3>1, <3>2
    <3>4. found # {} => n <= x
      <4>1. ASSUME found # {} PROVE n <= Len(buf) - 5
        BY <1>4, <4>1, <1>0
      <4> HIDE DEF found
      <4> QED BY <4>1, <1>0, <2>1, <2>5, <1>7
    <3>5. found = {} => n <= x
      <4> HIDE DEF found, tails
      <4> QED BY <1>5, <3>3
    <3> HIDE DEF found
    <3> QED BY <3>4, <3>5, <2>1, <1>7
  <2> QED BY <2>4, <2>5, <2>1, <1>0
<1> HIDE DEF n
<1>9. \A s \in Seq(Byte), p \in Nat :
        Extends(s, p, buf) =>
          \A i \in p + 1 .. p + n - 1 : ~Matches(s, i, BEGIN_STRING_PREFIX)
  BY <1>8
<1> QED BY <1>7, <1>9 DEF n

-----------------------------------------------------------------------------
(* scan as a whole. *)

\* The bytes after a frame's trusted extent is known: with its CheckSum tag at
\* c, the checksum and MsgType steps accept exactly what the format does.
LEMMA ChecksumCases ==
  ASSUME NEW buf, NEW c \in Nat
  PROVE  \/ ChecksumHolds(buf, 0, c + 7) /\ verify_checksum(buf, c).kind = "Ok"
         \/ /\ ~ChecksumHolds(buf, 0, c + 7)
            /\ \E reason \in PostStructuralReason :
                 verify_checksum(buf, c) = Garbled(reason, c + 7)
<1>1. c + 7 - 1 = c + 6 /\ c + 7 - 4 = c + 3 /\ c + 7 - 7 = c
  OBVIOUS
<1> DEFINE Sum == Checksum(Slice(buf, 0, c))
           digits == Slice(buf, c + 3, c + 6)
<1>2. ChecksumHolds(buf, 0, c + 7) <=>
        /\ At(buf, c + 6) = SOH
        /\ AllDigits(digits)
        /\ Number(digits) = Sum
  <2>1. ChecksumHolds(buf, 0, c + 7) <=>
          /\ At(buf, c + 7 - 1) = SOH
          /\ AllDigits(Slice(buf, c + 7 - 4, c + 7 - 1))
          /\ Number(Slice(buf, c + 7 - 4, c + 7 - 1)) = Checksum(Slice(buf, 0, c + 7 - 7))
    BY DEF ChecksumHolds
  <2> QED BY <1>1, <2>1
<1>3. verify_checksum(buf, c) =
        IF At(buf, c + 6) # SOH \/ ~AllDigits(digits)
          THEN Garbled("MalformedChecksum", c + 7)
        ELSE IF Sum # Number(digits)
          THEN Garbled("ChecksumMismatch", c + 7)
        ELSE Ok(TRUE, c + 7)
  BY Zenon DEF verify_checksum, post_structural_garble
<1> HIDE DEF Sum, digits
<1> QED BY <1>2, <1>3 DEF PostStructuralReason, Ok

\* n is BodyLength and r its SOH; a body that ends with SOH and starts with
\* "35=" has its SOH after the tag.
LEMMA MsgTypeCases ==
  ASSUME NEW buf, NEW r \in Nat, NEW n \in Nat
  PROVE  At(buf, r + n) = SOH =>
           \/ /\ MsgTypeFirst(buf, r, r + 1 + n + 7)
              /\ parse_msg_type(buf, r + 1, n).kind = "Ok"
           \/ /\ ~MsgTypeFirst(buf, r, r + 1 + n + 7)
              /\ \E reason \in PostStructuralReason :
                   parse_msg_type(buf, r + 1, n) = Garbled(reason, r + 1 + n + 7)
<1> SUFFICES ASSUME At(buf, r + n) = SOH
             PROVE  \/ /\ MsgTypeFirst(buf, r, r + 1 + n + 7)
                       /\ parse_msg_type(buf, r + 1, n).kind = "Ok"
                    \/ /\ ~MsgTypeFirst(buf, r, r + 1 + n + 7)
                       /\ \E reason \in PostStructuralReason :
                            parse_msg_type(buf, r + 1, n) = Garbled(reason, r + 1 + n + 7)
  OBVIOUS
<1> DEFINE sohs == Positions(buf, r + 1 + 3, r + 1 + n, SOH)
<1>1. parse_msg_type(buf, r + 1, n) =
        IF n < 3 \/ ~Matches(buf, r + 1, MSG_TYPE_TAG) \/ sohs = {}
          THEN Garbled("MissingMsgType", r + 1 + n + 7)
          ELSE Ok(Slice(buf, r + 1 + 3, Least(sohs)), r + 1 + n + 7)
  BY Zenon DEF parse_msg_type, post_structural_garble, CHECKSUM_FIELD_LEN
<1>2. MsgTypeFirst(buf, r, r + 1 + n + 7) <=> n >= 3 /\ Matches(buf, r + 1, MSG_TYPE_TAG)
  BY DEF MsgTypeFirst
<1>3. ASSUME n >= 3, Matches(buf, r + 1, MSG_TYPE_TAG) PROVE sohs # {}
  <2>1. n # 3
    <3>1. buf[r + 1 + 3] = 61
      BY <1>3 DEF Matches, MSG_TYPE_TAG
    <3> QED BY <3>1 DEF At, SOH
  <2>2. r + n \in r + 1 + 3 .. r + 1 + n - 1
    BY <1>3, <2>1
  <2>3. r + n \in sohs
    BY <2>2 DEF Positions
  <2> QED BY <2>3
<1> HIDE DEF sohs
<1> QED BY <1>1, <1>2, <1>3 DEF PostStructuralReason, Ok

BeginStringField(s, p, q) ==
  /\ q < Len(s) /\ At(s, q) = SOH
  /\ \A i \in p + 2 .. q - 1 : At(s, i) # SOH

\* Why a scan that could not find a frame's extent knows that there is none.
NoFrame(buf) ==
  \/ ~MatchesPrefix(buf, 0, Lesser(Len(buf), PREFIX_LEN))
  \/ Len(buf) > MAX_BEGIN_STRING_LEN /\ \A q \in BeginStringEnds(0) : At(buf, q) # SOH
  \/ \E q \in BeginStringEnds(0) : BeginStringField(buf, 0, q) /\ NoBodyLengthField(buf, q)
  \/ \E q \in BeginStringEnds(0) : \E r \in BodyLengthEnds(q) :
       /\ Preamble(buf, 0, q, r)
       /\ Number(Slice(buf, q + 3, r)) \in Nat
       /\ \/ FrameEnd(buf, q, r) > max_frame_size
          \/ FrameEnd(buf, q, r) <= Len(buf) /\ ~IsFrame(buf, 0, q, r)

\* Why a scan that asks for more bytes knows that it has no whole frame.
NoWholeFrame(buf) ==
  \/ Len(buf) < PREFIX_LEN
  \/ \A i \in 2 .. Len(buf) - 1 : At(buf, i) # SOH
  \/ \E q \in BeginStringEnds(0) :
       /\ BeginStringField(buf, 0, q)
       /\ \A i \in q + 3 .. Len(buf) - 1 : At(buf, i) # SOH
  \/ \E q \in BeginStringEnds(0) : \E r \in BodyLengthEnds(q) :
       /\ Preamble(buf, 0, q, r)
       /\ Number(Slice(buf, q + 3, r)) \in Nat
       /\ FrameEnd(buf, q, r) > Len(buf)

\* What scan comes to once it has parsed the preamble.
ScanRest(buf, begin, n, r) ==
  LET frame_len == validated_frame_len(buf, r + 1, n)
      trailer == verify_trailer_start(buf, r + 1 + n)
      checksum == verify_checksum(buf, r + 1 + n)
      msg_type == parse_msg_type(buf, r + 1, n)
  IN  IF frame_len.kind # "Ok" THEN frame_len
      ELSE IF trailer.kind # "Ok" THEN trailer
      ELSE IF checksum.kind # "Ok" THEN checksum
      ELSE IF msg_type.kind # "Ok" THEN msg_type
      ELSE [kind |-> "Frame", len |-> frame_len.value, begin_string |-> begin,
            body_length |-> n, msg_type |-> msg_type.value]

LEMMA ScanOfPreamble ==
  ASSUME NEW buf \in Seq(Byte),
         NEW q \in BeginStringEnds(0), NEW r \in BodyLengthEnds(q), NEW begin, NEW n \in Nat,
         Preamble(buf, 0, q, r), n = Number(Slice(buf, q + 3, r))
  PROVE  LET x == ScanRest(buf, begin, n, r)
             e == FrameEnd(buf, q, r)
         IN  \/ /\ \E reason \in StructuralReason : x = structural_garble(reason, buf)
                /\ \/ e > max_frame_size
                   \/ e <= Len(buf) /\ ~IsFrame(buf, 0, q, r)
             \/ x = Incomplete /\ Len(buf) < max_frame_size /\ e > Len(buf)
             \/ /\ IsFrame(buf, 0, q, r)
                /\ \/ /\ ~IsMessage(buf, 0, q, r)
                      /\ \E reason \in PostStructuralReason : x = Garbled(reason, e)
                   \/ /\ IsMessage(buf, 0, q, r)
                      /\ x.kind = "Frame" /\ x.len = e
<1> DEFINE c == r + 1 + n
           e == c + 7
           frame_len == validated_frame_len(buf, r + 1, n)
           trailer == verify_trailer_start(buf, c)
           checksum == verify_checksum(buf, c)
           msg_type == parse_msg_type(buf, r + 1, n)
           x == ScanRest(buf, begin, n, r)
           frame == [kind |-> "Frame", len |-> frame_len.value, begin_string |-> begin,
                     body_length |-> n, msg_type |-> msg_type.value]
<1>0. /\ Len(buf) \in Nat /\ r \in Nat /\ q \in Nat /\ c \in Nat /\ e \in Nat
      /\ max_frame_size \in Nat /\ c - 1 = r + n /\ e - 8 = r + n /\ e - 7 = c
  BY FramingAssumption DEF BeginStringEnds, BodyLengthEnds
<1>1. FrameEnd(buf, q, r) = e
  BY DEF FrameEnd
<1>2. x = IF frame_len.kind # "Ok" THEN frame_len
          ELSE IF trailer.kind # "Ok" THEN trailer
          ELSE IF checksum.kind # "Ok" THEN checksum
          ELSE IF msg_type.kind # "Ok" THEN msg_type
          ELSE frame
  BY Zenon DEF ScanRest
<1>3. frame_len = IF e > max_frame_size THEN structural_garble("FrameTooLarge", buf)
                  ELSE IF Len(buf) < e THEN Incomplete
                  ELSE Ok(e, e)
  BY Zenon DEF validated_frame_len, CHECKSUM_FIELD_LEN
<1>4. trailer = IF At(buf, c - 1) = SOH /\ Matches(buf, c, CHECKSUM_TAG)
                  THEN Ok(TRUE, c)
                  ELSE structural_garble("BodyLengthMismatch", buf)
  BY Zenon DEF verify_trailer_start
<1>5. IsFrame(buf, 0, q, r) <=>
        /\ e <= Len(buf) /\ e <= max_frame_size
        /\ At(buf, c - 1) = SOH /\ Matches(buf, c, CHECKSUM_TAG)
  <2>1. IsFrame(buf, 0, q, r) <=>
          /\ e <= Len(buf) /\ e - 0 <= max_frame_size
          /\ At(buf, e - 8) = SOH /\ Matches(buf, e - 7, CHECKSUM_TAG)
    <3> HIDE DEF e
    <3> QED BY <1>1 DEF IsFrame
  <2> HIDE DEF e, c
  <2> QED BY <2>1, <1>0
<1>6. IsMessage(buf, 0, q, r) <=>
        /\ IsFrame(buf, 0, q, r)
        /\ ChecksumHolds(buf, 0, e) /\ MsgTypeFirst(buf, r, e)
  <2> HIDE DEF e
  <2> QED BY <1>1, Zenon DEF IsMessage
<1>7. \/ ChecksumHolds(buf, 0, e) /\ checksum.kind = "Ok"
      \/ /\ ~ChecksumHolds(buf, 0, e)
         /\ \E reason \in PostStructuralReason : checksum = Garbled(reason, e)
  <2> HIDE DEF c
  <2> QED BY <1>0, ChecksumCases
<1>8. At(buf, c - 1) = SOH =>
        \/ MsgTypeFirst(buf, r, e) /\ msg_type.kind = "Ok"
        \/ /\ ~MsgTypeFirst(buf, r, e)
           /\ \E reason \in PostStructuralReason : msg_type = Garbled(reason, e)
  <2>1. r \in Nat
    BY <1>0
  <2>2. At(buf, r + n) = SOH =>
          \/ MsgTypeFirst(buf, r, e) /\ msg_type.kind = "Ok"
          \/ /\ ~MsgTypeFirst(buf, r, e)
             /\ \E reason \in PostStructuralReason : msg_type = Garbled(reason, e)
    BY <2>1, MsgTypeCases, Zenon
  <2> HIDE DEF c, e, msg_type
  <2> QED BY <1>0, <2>2
<1>9. /\ \A v, w : Ok(v, w).kind = "Ok" /\ Ok(v, w).value = v
      /\ \A reason, b : structural_garble(reason, b).kind = "Garbled"
      /\ \A reason, b : Garbled(reason, b).kind = "Garbled"
      /\ Incomplete.kind = "Incomplete"
      /\ frame.kind = "Frame" /\ frame.len = frame_len.value
  BY DEF Ok, structural_garble, Garbled, Incomplete
<1> HIDE DEF c, e, frame_len, trailer, checksum, msg_type, x, frame
<1>10. CASE e > max_frame_size
  <2>1. x = structural_garble("FrameTooLarge", buf)
    BY <1>2, <1>3, <1>9, <1>10
  <2> QED BY <2>1, <1>1, <1>10 DEF StructuralReason, x
<1>11. CASE ~(e > max_frame_size) /\ Len(buf) < e
  <2>1. x = Incomplete
    BY <1>2, <1>3, <1>9, <1>11
  <2> QED BY <2>1, <1>0, <1>1, <1>11 DEF x
<1>12. CASE ~(e > max_frame_size) /\ ~(Len(buf) < e)
  <2>1. frame_len = Ok(e, e) /\ e <= Len(buf) /\ e <= max_frame_size
    BY <1>3, <1>12, <1>0
  <2>2. CASE ~(At(buf, c - 1) = SOH /\ Matches(buf, c, CHECKSUM_TAG))
    <3>1. x = structural_garble("BodyLengthMismatch", buf)
      BY <1>2, <1>4, <1>9, <2>1, <2>2
    <3>2. ~IsFrame(buf, 0, q, r)
      BY <1>5, <2>2
    <3> QED BY <3>1, <3>2, <2>1, <1>1 DEF StructuralReason, x
  <2>3. CASE At(buf, c - 1) = SOH /\ Matches(buf, c, CHECKSUM_TAG)
    <3>1. IsFrame(buf, 0, q, r) /\ trailer.kind = "Ok" /\ frame_len.kind = "Ok"
      BY <1>5, <1>4, <1>9, <2>1, <2>3
    <3>2. x = IF checksum.kind # "Ok" THEN checksum
              ELSE IF msg_type.kind # "Ok" THEN msg_type
              ELSE frame
      BY <1>2, <3>1
    <3>3. CASE ~ChecksumHolds(buf, 0, e)
      <4>1. \E reason \in PostStructuralReason : x = Garbled(reason, e)
        BY <1>7, <1>9, <3>2, <3>3
      <4> QED BY <4>1, <1>1, <1>6, <3>1, <3>3 DEF x
    <3>4. CASE ChecksumHolds(buf, 0, e) /\ ~MsgTypeFirst(buf, r, e)
      <4>1. /\ checksum.kind = "Ok"
            /\ \E reason \in PostStructuralReason : msg_type = Garbled(reason, e)
        BY <1>7, <1>8, <2>3, <3>4, Zenon
      <4>2. \E reason \in PostStructuralReason : x = Garbled(reason, e)
        BY <1>9, <3>2, <4>1
      <4> QED BY <4>2, <1>1, <1>6, <3>1, <3>4 DEF x
    <3>5. CASE ChecksumHolds(buf, 0, e) /\ MsgTypeFirst(buf, r, e)
      <4>1. checksum.kind = "Ok" /\ msg_type.kind = "Ok"
        BY <1>7, <1>8, <2>3, <3>5, Zenon
      <4>2. x = frame
        BY <3>2, <4>1
      <4>3. x.kind = "Frame" /\ x.len = e
        BY <4>2, <1>9, <2>1
      <4> QED BY <4>3, <1>1, <1>6, <3>1, <3>5 DEF x
    <3> QED BY <3>3, <3>4, <3>5
  <2> QED BY <2>2, <2>3
<1> QED BY <1>10, <1>11, <1>12 DEF x

\* Every outcome of scan, with what it says of the buffer.
LEMMA ScanCases ==
  ASSUME NEW buf \in Seq(Byte)
  PROVE  \/ \E reason \in StructuralReason :
               /\ scan(buf) = structural_garble(reason, buf)
               /\ Len(buf) >= 1
               /\ Len(buf) >= PREFIX_LEN \/ ~MatchesPrefix(buf, 0, Len(buf))
               /\ NoFrame(buf)
         \/ /\ scan(buf) = Incomplete
            /\ \/ Len(buf) < max_frame_size
               \/ Len(buf) < MAX_BEGIN_STRING_LEN + 4 + MAX_BODY_LENGTH_DIGITS
            /\ NoWholeFrame(buf)
         \/ \E q \in BeginStringEnds(0) : \E r \in BodyLengthEnds(q) :
              /\ IsFrame(buf, 0, q, r)
              /\ Number(Slice(buf, q + 3, r)) \in Nat
              /\ \/ /\ ~IsMessage(buf, 0, q, r)
                    /\ \E reason \in PostStructuralReason :
                         scan(buf) = Garbled(reason, FrameEnd(buf, q, r))
                 \/ /\ IsMessage(buf, 0, q, r)
                    /\ scan(buf).kind = "Frame"
                    /\ scan(buf).len = FrameEnd(buf, q, r)
<1> DEFINE begin_string == parse_begin_string(buf)
           body_length == parse_body_length(buf, begin_string.next)
           frame_len == validated_frame_len(buf, body_length.next, body_length.value)
           checksum_start == body_length.next + body_length.value
           trailer == verify_trailer_start(buf, checksum_start)
           checksum == verify_checksum(buf, checksum_start)
           msg_type == parse_msg_type(buf, body_length.next, body_length.value)
           frame == [kind |-> "Frame", len |-> frame_len.value,
                     begin_string |-> begin_string.value,
                     body_length |-> body_length.value, msg_type |-> msg_type.value]
<1>0. /\ Len(buf) \in Nat /\ Len(BEGIN_STRING_PREFIX) = 5
      /\ MAX_BEGIN_STRING_LEN \in Nat /\ MAX_BEGIN_STRING_LEN >= 5
      /\ MAX_BODY_LENGTH_DIGITS \in Nat /\ max_frame_size \in Nat
  BY FramingAssumption DEF BEGIN_STRING_PREFIX
<1>1. scan(buf) =
        IF ~MatchesPrefix(buf, 0, Lesser(Len(buf), PREFIX_LEN))
          THEN structural_garble("MissingBeginString", buf)
        ELSE IF Len(buf) < PREFIX_LEN THEN Incomplete
        ELSE IF begin_string.kind # "Ok" THEN begin_string
        ELSE IF body_length.kind # "Ok" THEN body_length
        ELSE IF frame_len.kind # "Ok" THEN frame_len
        ELSE IF trailer.kind # "Ok" THEN trailer
        ELSE IF checksum.kind # "Ok" THEN checksum
        ELSE IF msg_type.kind # "Ok" THEN msg_type
        ELSE frame
  BY Zenon DEF scan
<1>2. CASE ~MatchesPrefix(buf, 0, Lesser(Len(buf), PREFIX_LEN))
  <2>1. scan(buf) = structural_garble("MissingBeginString", buf)
    BY <1>1, <1>2, Zenon
  <2>2. Len(buf) >= 1
    BY <1>2, <1>0 DEF MatchesPrefix, Lesser
  <2>3. Len(buf) >= PREFIX_LEN \/ ~MatchesPrefix(buf, 0, Len(buf))
    BY <1>2, <1>0 DEF Lesser
  <2>4. NoFrame(buf)
    BY <1>2, Zenon DEF NoFrame
  <2> QED BY <2>1, <2>2, <2>3, <2>4 DEF StructuralReason
<1>3. CASE MatchesPrefix(buf, 0, Lesser(Len(buf), PREFIX_LEN)) /\ Len(buf) < PREFIX_LEN
  <2>1. scan(buf) = Incomplete
    BY <1>1, <1>3, Zenon
  <2>2. NoWholeFrame(buf)
    BY <1>3 DEF NoWholeFrame
  <2> QED BY <2>1, <2>2, <1>3, <1>0
<1>4. CASE MatchesPrefix(buf, 0, Lesser(Len(buf), PREFIX_LEN)) /\ ~(Len(buf) < PREFIX_LEN)
  <2>0. /\ Len(buf) >= 5
        /\ Matches(buf, 0, BEGIN_STRING_PREFIX)
        /\ \A v, w : Ok(v, w).kind = "Ok" /\ Ok(v, w).value = v /\ Ok(v, w).next = w
        /\ \A reason, b : structural_garble(reason, b).kind = "Garbled"
        /\ Incomplete.kind = "Incomplete"
    BY <1>4, <1>0 DEF Lesser, MatchesPrefix, Matches, Ok, structural_garble, Garbled, Incomplete
  <2>1. CASE /\ begin_string = Incomplete /\ Len(buf) <= MAX_BEGIN_STRING_LEN
             /\ \A i \in 2 .. Len(buf) - 1 : At(buf, i) # SOH
    <3>1. scan(buf) = Incomplete
      <4> HIDE DEF begin_string
      <4> QED BY <1>1, <1>4, <2>0, <2>1
    <3>2. NoWholeFrame(buf)
      BY <2>1 DEF NoWholeFrame
    <3> QED BY <3>1, <3>2, <2>1, <1>0
  <2>2. CASE /\ begin_string = structural_garble("MalformedBeginString", buf)
             /\ Len(buf) > MAX_BEGIN_STRING_LEN
             /\ \A i \in BeginStringEnds(0) : At(buf, i) # SOH
    <3>1. scan(buf) = structural_garble("MalformedBeginString", buf)
      <4> HIDE DEF begin_string
      <4> QED BY <1>1, <1>4, <2>0, <2>2
    <3>2. NoFrame(buf)
      BY <2>2, Zenon DEF NoFrame
    <3> QED BY <3>1, <3>2, <2>0 DEF StructuralReason
  <2>3. ASSUME NEW q \in BeginStringEnds(0),
               begin_string = Ok(Slice(buf, 2, q), q + 1),
               q < Len(buf), At(buf, q) = SOH, \A i \in 2 .. q - 1 : At(buf, i) # SOH
        PROVE  \/ \E reason \in StructuralReason :
                     scan(buf) = structural_garble(reason, buf) /\ NoFrame(buf)
               \/ /\ scan(buf) = Incomplete
                  /\ \/ Len(buf) < max_frame_size
                     \/ Len(buf) < MAX_BEGIN_STRING_LEN + 4 + MAX_BODY_LENGTH_DIGITS
                  /\ NoWholeFrame(buf)
               \/ \E r \in BodyLengthEnds(q) :
                     /\ IsFrame(buf, 0, q, r)
                     /\ Number(Slice(buf, q + 3, r)) \in Nat
                     /\ \/ /\ ~IsMessage(buf, 0, q, r)
                           /\ \E reason \in PostStructuralReason :
                                scan(buf) = Garbled(reason, FrameEnd(buf, q, r))
                        \/ /\ IsMessage(buf, 0, q, r)
                           /\ scan(buf).kind = "Frame"
                           /\ scan(buf).len = FrameEnd(buf, q, r)
    <3> DEFINE parsed == parse_body_length(buf, q + 1)
    <3>0. q \in Nat /\ q <= MAX_BEGIN_STRING_LEN
      BY <1>0 DEF BeginStringEnds
    <3>1. begin_string.kind = "Ok" /\ begin_string.next = q + 1
          /\ begin_string.value = Slice(buf, 2, q)
      <4> HIDE DEF begin_string
      <4> QED BY <2>3, <2>0
    <3>2. body_length = parsed
      <4> HIDE DEF begin_string
      <4> QED BY <3>1
    <3>3. CASE /\ parsed = Incomplete
               /\ Len(buf) <= q + 3 + MAX_BODY_LENGTH_DIGITS
               /\ \A i \in q + 3 .. Len(buf) - 1 : At(buf, i) # SOH
      <4>1. scan(buf) = Incomplete
        <5> HIDE DEF begin_string, body_length, parsed
        <5> QED BY <1>1, <1>4, <2>0, <3>1, <3>2, <3>3
      <4>2. NoWholeFrame(buf)
        <5>1. BeginStringField(buf, 0, q)
          BY <2>3 DEF BeginStringField
        <5> QED BY <3>3, <5>1 DEF NoWholeFrame
      <4> QED BY <4>1, <4>2, <3>0, <3>3, <1>0
    <3>4. CASE /\ \E reason \in StructuralReason : parsed = structural_garble(reason, buf)
               /\ NoBodyLengthField(buf, q)
      <4>1. parsed.kind = "Garbled"
        <5> HIDE DEF parsed
        <5> QED BY <3>4, <2>0
      <4>2. scan(buf) = parsed
        <5> HIDE DEF begin_string, body_length, parsed
        <5> QED BY <1>1, <1>4, <2>0, <3>1, <3>2, <4>1
      <4>3. NoFrame(buf)
        <5>1. BeginStringField(buf, 0, q)
          BY <2>3 DEF BeginStringField
        <5> QED BY <3>4, <5>1, Zenon DEF NoFrame
      <4> HIDE DEF parsed
      <4> QED BY <3>4, <4>2, <4>3
    <3>5. ASSUME NEW r \in BodyLengthEnds(q),
                 parsed = Ok(Number(Slice(buf, q + 3, r)), r + 1),
                 BodyLengthField(buf, q, r),
                 Number(Slice(buf, q + 3, r)) \in Nat
          PROVE  \/ \E reason \in StructuralReason :
                       scan(buf) = structural_garble(reason, buf) /\ NoFrame(buf)
                 \/ /\ scan(buf) = Incomplete /\ Len(buf) < max_frame_size
                    /\ NoWholeFrame(buf)
                 \/ /\ IsFrame(buf, 0, q, r)
                    /\ \/ /\ ~IsMessage(buf, 0, q, r)
                          /\ \E reason \in PostStructuralReason :
                               scan(buf) = Garbled(reason, FrameEnd(buf, q, r))
                       \/ /\ IsMessage(buf, 0, q, r)
                          /\ scan(buf).kind = "Frame"
                          /\ scan(buf).len = FrameEnd(buf, q, r)
      <4> DEFINE n == Number(Slice(buf, q + 3, r))
                 begin == Slice(buf, 2, q)
                 rest == ScanRest(buf, begin, n, r)
      <4>1. /\ body_length.kind = "Ok" /\ body_length.next = r + 1
            /\ body_length.value = n
        <5> HIDE DEF begin_string, body_length, parsed
        <5> QED BY <3>2, <3>5, <2>0
      <4>2. /\ frame_len = validated_frame_len(buf, r + 1, n)
            /\ trailer = verify_trailer_start(buf, r + 1 + n)
            /\ checksum = verify_checksum(buf, r + 1 + n)
            /\ msg_type = parse_msg_type(buf, r + 1, n)
            /\ begin_string.value = begin
        <5> HIDE DEF begin_string, body_length, n, begin
        <5>1. begin_string.value = begin
          BY <3>1 DEF begin
        <5> QED BY <4>1, <5>1
      <4>3. scan(buf) = IF frame_len.kind # "Ok" THEN frame_len
                        ELSE IF trailer.kind # "Ok" THEN trailer
                        ELSE IF checksum.kind # "Ok" THEN checksum
                        ELSE IF msg_type.kind # "Ok" THEN msg_type
                        ELSE frame
        <5> HIDE DEF begin_string, body_length, frame_len, trailer, checksum, msg_type, frame
        <5> QED BY <1>1, <1>4, <3>1, <4>1
      <4>4. frame = [kind |-> "Frame", len |-> frame_len.value, begin_string |-> begin,
                     body_length |-> n, msg_type |-> msg_type.value]
        <5> HIDE DEF begin_string, body_length, frame_len, msg_type, n, begin
        <5> QED BY <4>1, <4>2
      <4>5. scan(buf) = rest
        <5> HIDE DEF begin_string, body_length, frame_len, trailer, checksum, msg_type,
                     frame, n, begin
        <5> QED BY <4>2, <4>3, <4>4 DEF ScanRest
      <4>6. Preamble(buf, 0, q, r)
        BY <2>0, <2>3, <3>5 DEF Preamble, BodyLengthField
      <4>7. n \in Nat
        BY <3>5
      <4>8. /\ FrameEnd(buf, q, r) > max_frame_size => NoFrame(buf)
            /\ FrameEnd(buf, q, r) <= Len(buf) /\ ~IsFrame(buf, 0, q, r) => NoFrame(buf)
        BY <4>6, <4>7, Zenon DEF NoFrame
      <4>9. \/ /\ \E reason \in StructuralReason : rest = structural_garble(reason, buf)
               /\ \/ FrameEnd(buf, q, r) > max_frame_size
                  \/ FrameEnd(buf, q, r) <= Len(buf) /\ ~IsFrame(buf, 0, q, r)
            \/ /\ rest = Incomplete /\ Len(buf) < max_frame_size
               /\ FrameEnd(buf, q, r) > Len(buf)
            \/ /\ IsFrame(buf, 0, q, r)
               /\ \/ /\ ~IsMessage(buf, 0, q, r)
                     /\ \E reason \in PostStructuralReason :
                          rest = Garbled(reason, FrameEnd(buf, q, r))
                  \/ /\ IsMessage(buf, 0, q, r)
                     /\ rest.kind = "Frame" /\ rest.len = FrameEnd(buf, q, r)
        <5> HIDE DEF n, begin
        <5>1. n = Number(Slice(buf, q + 3, r))
          BY DEF n
        <5> QED BY <4>6, <4>7, <5>1, ScanOfPreamble, Zenon
      <4> HIDE DEF rest
      <4>10. CASE /\ \E reason \in StructuralReason : rest = structural_garble(reason, buf)
                  /\ \/ FrameEnd(buf, q, r) > max_frame_size
                     \/ FrameEnd(buf, q, r) <= Len(buf) /\ ~IsFrame(buf, 0, q, r)
        <5>1. NoFrame(buf)
          BY <4>8, <4>10
        <5> QED BY <4>5, <4>10, <5>1
      <4>11. CASE /\ rest = Incomplete /\ Len(buf) < max_frame_size
                  /\ FrameEnd(buf, q, r) > Len(buf)
        <5>1. NoWholeFrame(buf)
          BY <4>6, <4>7, <4>11, Zenon DEF NoWholeFrame
        <5> QED BY <4>5, <4>11, <5>1
      <4>12. CASE /\ IsFrame(buf, 0, q, r)
                  /\ \/ /\ ~IsMessage(buf, 0, q, r)
                        /\ \E reason \in PostStructuralReason :
                             rest = Garbled(reason, FrameEnd(buf, q, r))
                     \/ /\ IsMessage(buf, 0, q, r)
                        /\ rest.kind = "Frame" /\ rest.len = FrameEnd(buf, q, r)
        BY <4>5, <4>12
      <4> QED BY <4>9, <4>10, <4>11, <4>12, Zenon
    <3> QED
      <4> HIDE DEF begin_string, body_length
      <4> QED BY <2>3, <3>3, <3>4, <3>5, BodyLengthCases
  <2> QED
    BY <2>0, <2>1, <2>2, <2>3, BeginStringCases
<1> QED BY <1>2, <1>3, <1>4, Zenon

\* The checksum test, for a frame that runs from p to e.
LEMMA ChecksumHoldsMeans ==
  \A t, b, f : ChecksumHolds(t, b, f) <=>
    /\ At(t, f - 1) = SOH
    /\ AllDigits(Slice(t, f - 4, f - 1))
    /\ Number(Slice(t, f - 4, f - 1)) = Checksum(Slice(t, b, f - 7))
BY DEF ChecksumHolds

\* A frame that is whole in the buffer is in the stream what it is there.
LEMMA ExtendsFrame ==
  ASSUME NEW s \in Seq(Byte), NEW p \in Nat, NEW buf \in Seq(Byte), Extends(s, p, buf),
         NEW q \in BeginStringEnds(0), NEW r \in BodyLengthEnds(q)
  PROVE  /\ Preamble(buf, 0, q, r)
         /\ Number(Slice(buf, q + 3, r)) \in Nat
         /\ FrameEnd(buf, q, r) <= Len(buf)
         => /\ FrameEnd(s, p + q, p + r) = p + FrameEnd(buf, q, r)
            /\ IsFrame(s, p, p + q, p + r) <=> IsFrame(buf, 0, q, r)
            /\ IsMessage(s, p, p + q, p + r) <=> IsMessage(buf, 0, q, r)
<1> DEFINE e == FrameEnd(buf, q, r)
           n == Number(Slice(buf, q + 3, r))
<1>a. /\ q \in Nat /\ r \in Nat /\ Len(buf) \in Nat /\ r >= q + 4
      /\ max_frame_size \in Nat
  BY FramingAssumption DEF BeginStringEnds, BodyLengthEnds
<1>b. /\ CHECKSUM_TAG \in Seq(Byte) /\ Len(CHECKSUM_TAG) = 3
      /\ MSG_TYPE_TAG \in Seq(Byte) /\ Len(MSG_TYPE_TAG) = 3
  BY DEF CHECKSUM_TAG, MSG_TYPE_TAG, Byte
<1>c. \A i \in Nat : i + Len(CHECKSUM_TAG) <= Len(buf)
        => (Matches(s, p + i, CHECKSUM_TAG) <=> Matches(buf, i, CHECKSUM_TAG))
  BY <1>b, ExtendsMatches, Zenon
<1>d. \A i \in Nat : i + Len(MSG_TYPE_TAG) <= Len(buf)
        => (Matches(s, p + i, MSG_TYPE_TAG) <=> Matches(buf, i, MSG_TYPE_TAG))
  BY <1>b, ExtendsMatches, Zenon
<1>e. \A i, j \in Nat : i <= j /\ j <= Len(buf)
                            => Slice(s, p + i, p + j) = Slice(buf, i, j)
  BY ExtendsSlice, Zenon
<1>f. \A i \in 0 .. Len(buf) - 1 : At(s, p + i) = At(buf, i)
  BY ExtendsAt
<1>g. r <= Len(buf) /\ n \in Nat => FrameEnd(s, p + q, p + r) = p + e
  <2>1. q + 3 <= r
    BY <1>a
  <2> QED BY <1>a, <2>1, ExtendsFrameEnd
<1> SUFFICES ASSUME Preamble(buf, 0, q, r), n \in Nat, e <= Len(buf)
             PROVE  /\ FrameEnd(s, p + q, p + r) = p + e
                    /\ IsFrame(s, p, p + q, p + r) <=> IsFrame(buf, 0, q, r)
                    /\ IsMessage(s, p, p + q, p + r) <=> IsMessage(buf, 0, q, r)
  OBVIOUS
<1>1. e = r + 1 + n + 7 /\ e \in Nat
  <2>1. e = r + 1 + n + 7
    BY DEF FrameEnd
  <2> HIDE DEF n, e
  <2> QED BY <1>a, <2>1
<1>2. FrameEnd(s, p + q, p + r) = p + e
  <2> HIDE DEF n, e
  <2> QED BY <1>1, <1>a, <1>g
<1>3. Preamble(s, p, p + q, p + r)
  BY ExtendsPreamble
<1>4. IsFrame(s, p, p + q, p + r) <=>
        /\ p + e <= Len(s) /\ (p + e) - p <= max_frame_size
        /\ At(s, (p + e) - 8) = SOH /\ Matches(s, (p + e) - 7, CHECKSUM_TAG)
  <2> HIDE DEF e
  <2> QED BY <1>2, <1>3 DEF IsFrame
<1>5. IsFrame(buf, 0, q, r) <=>
        /\ e <= Len(buf) /\ e - 0 <= max_frame_size
        /\ At(buf, e - 8) = SOH /\ Matches(buf, e - 7, CHECKSUM_TAG)
  BY DEF IsFrame
<1>6. /\ IsMessage(s, p, p + q, p + r) <=>
            /\ IsFrame(s, p, p + q, p + r) /\ ChecksumHolds(s, p, p + e)
            /\ MsgTypeFirst(s, p + r, p + e)
      /\ IsMessage(buf, 0, q, r) <=>
            /\ IsFrame(buf, 0, q, r) /\ ChecksumHolds(buf, 0, e)
            /\ MsgTypeFirst(buf, r, e)
  <2>1. IsMessage(buf, 0, q, r) <=>
            /\ IsFrame(buf, 0, q, r) /\ ChecksumHolds(buf, 0, e)
            /\ MsgTypeFirst(buf, r, e)
    BY DEF IsMessage
  <2> HIDE DEF e
  <2> QED BY <2>1, <1>2 DEF IsMessage
<1> HIDE DEF n, e
<1>7. /\ p + e <= Len(s) /\ (p + e) - p = e /\ e - 0 = e
      /\ e - 8 \in 0 .. Len(buf) - 1 /\ (p + e) - 8 = p + (e - 8)
      /\ e - 7 \in Nat /\ e - 7 + 3 <= Len(buf) /\ (p + e) - 7 = p + (e - 7)
      /\ e - 1 \in 0 .. Len(buf) - 1 /\ (p + e) - 1 = p + (e - 1)
      /\ e - 4 \in Nat /\ e - 1 \in Nat /\ e - 4 <= e - 1 /\ e - 1 <= Len(buf)
      /\ (p + e) - 4 = p + (e - 4) /\ e - 7 <= Len(buf)
      /\ p + 0 = p
  BY <1>1, <1>a DEF Extends
<1>8. IsFrame(s, p, p + q, p + r) <=> IsFrame(buf, 0, q, r)
  <2>1. At(s, p + (e - 8)) = At(buf, e - 8)
    BY <1>7, <1>f
  <2>2. Matches(s, p + (e - 7), CHECKSUM_TAG) <=> Matches(buf, e - 7, CHECKSUM_TAG)
    BY <1>7, <1>b, <1>c
  <2> QED BY <1>4, <1>5, <1>7, <2>1, <2>2
<1>9. ChecksumHolds(s, p, p + e) <=> ChecksumHolds(buf, 0, e)
  <2>1. At(s, p + (e - 1)) = At(buf, e - 1)
    BY <1>7, <1>f
  <2>2. Slice(s, p + (e - 4), p + (e - 1)) = Slice(buf, e - 4, e - 1)
    BY <1>7, <1>e
  <2>3. Slice(s, p + 0, p + (e - 7)) = Slice(buf, 0, e - 7)
    BY <1>7, <1>e
  <2>4. /\ At(s, (p + e) - 1) = At(buf, e - 1)
        /\ Slice(s, (p + e) - 4, (p + e) - 1) = Slice(buf, e - 4, e - 1)
        /\ Slice(s, p, (p + e) - 7) = Slice(buf, 0, e - 7)
    BY <1>7, <2>1, <2>2, <2>3
  <2>5. ChecksumHolds(s, p, p + e) <=>
          /\ At(s, (p + e) - 1) = SOH
          /\ AllDigits(Slice(s, (p + e) - 4, (p + e) - 1))
          /\ Number(Slice(s, (p + e) - 4, (p + e) - 1))
               = Checksum(Slice(s, p, (p + e) - 7))
    BY ChecksumHoldsMeans
  <2>6. ChecksumHolds(buf, 0, e) <=>
          /\ At(buf, e - 1) = SOH
          /\ AllDigits(Slice(buf, e - 4, e - 1))
          /\ Number(Slice(buf, e - 4, e - 1)) = Checksum(Slice(buf, 0, e - 7))
    BY ChecksumHoldsMeans
  <2> QED BY <2>4, <2>5, <2>6, Zenon
<1>10. IsFrame(buf, 0, q, r) =>
         (MsgTypeFirst(s, p + r, p + e) <=> MsgTypeFirst(buf, r, e))
  <2>1. p + r + 4 <= p + e - 7 <=> r + 4 <= e - 7
    BY <1>1, <1>a
  <2>2. r + 4 <= e - 7 => (Matches(s, p + (r + 1), MSG_TYPE_TAG)
                             <=> Matches(buf, r + 1, MSG_TYPE_TAG))
    <3>1. r + 4 <= e - 7 => r + 1 \in Nat /\ r + 1 + Len(MSG_TYPE_TAG) <= Len(buf)
      BY <1>1, <1>7, <1>a, <1>b
    <3> QED BY <3>1, <1>d
  <2>3. p + (r + 1) = p + r + 1
    BY <1>a
  <2> QED BY <1>1, <1>a, <2>1, <2>2, <2>3 DEF MsgTypeFirst
<1> QED BY <1>2, <1>6, <1>8, <1>9, <1>10

\* What the buffer rules out, the stream rules out: no bytes to come make a
\* frame, whole or unfinished, of one that scan gave up.
LEMMA NoFrameInStream ==
  ASSUME NEW s \in Seq(Byte), NEW p \in Nat, NEW buf \in Seq(Byte), Extends(s, p, buf),
         NoFrame(buf), NEW q \in BeginStringEnds(p), NEW r \in BodyLengthEnds(q)
  PROVE  ~IsFrame(s, p, q, r) /\ ~IsOpenFrame(s, p, q, r)
<1> SUFFICES ASSUME Preamble(s, p, q, r)
             PROVE  ~IsFrame(s, p, q, r) /\ ~IsOpenFrame(s, p, q, r)
  BY DEF IsFrame, IsOpenFrame
<1>0. /\ Len(buf) \in Nat /\ Len(s) \in Nat /\ q \in Nat /\ r \in Nat /\ q >= p + 2
      /\ q <= p + MAX_BEGIN_STRING_LEN /\ r >= q + 4
      /\ MAX_BEGIN_STRING_LEN \in Nat /\ max_frame_size \in Nat
      /\ Len(BEGIN_STRING_PREFIX) = 5
  BY FramingAssumption DEF BeginStringEnds, BodyLengthEnds, BEGIN_STRING_PREFIX
<1>1. \A i \in 0 .. Len(buf) - 1 : At(s, p + i) = At(buf, i)
  BY ExtendsAt
<1>2. /\ At(s, q) = SOH /\ \A i \in p + 2 .. q - 1 : At(s, i) # SOH
      /\ Matches(s, p, BEGIN_STRING_PREFIX)
      /\ BodyLengthField(s, q, r)
  BY DEF Preamble, BodyLengthField
<1>3. CASE ~MatchesPrefix(buf, 0, Lesser(Len(buf), PREFIX_LEN))
  <2>1. \A j \in 1 .. 5 : s[p + j] = BEGIN_STRING_PREFIX[j]
    BY <1>2, <1>0 DEF Matches
  <2>2. \A j \in 1 .. 5 : j <= Len(buf) => buf[j] = BEGIN_STRING_PREFIX[j]
    <3> SUFFICES ASSUME NEW j \in 1 .. 5, j <= Len(buf)
                 PROVE  buf[j] = BEGIN_STRING_PREFIX[j]
      OBVIOUS
    <3>1. j \in 1 .. Len(buf)
      BY <1>0
    <3> QED BY <2>1, <3>1 DEF Extends
  <2>3. \A j \in 1 .. Lesser(Len(buf), PREFIX_LEN) : j \in 1 .. 5 /\ j <= Len(buf) /\ 0 + j = j
    BY <1>0 DEF Lesser
  <2>4. MatchesPrefix(buf, 0, Lesser(Len(buf), PREFIX_LEN))
    BY <2>2, <2>3 DEF MatchesPrefix
  <2> QED BY <2>4, <1>3
<1>4. CASE /\ Len(buf) > MAX_BEGIN_STRING_LEN
           /\ \A x \in BeginStringEnds(0) : At(buf, x) # SOH
  <2>1. q - p \in BeginStringEnds(0) /\ q - p \in 0 .. Len(buf) - 1 /\ q = p + (q - p)
    BY <1>0, <1>4 DEF BeginStringEnds
  <2> QED BY <2>1, <1>1, <1>2, <1>4
<1>5. ASSUME NEW x \in BeginStringEnds(0), BeginStringField(buf, 0, x),
             NoBodyLengthField(buf, x)
      PROVE  FALSE
  <2>1. x \in Nat /\ x >= 2 /\ x < Len(buf) /\ At(buf, x) = SOH
        /\ \A i \in 2 .. x - 1 : At(buf, i) # SOH
    BY <1>5, <1>0 DEF BeginStringEnds, BeginStringField
  <2>2. At(s, p + x) = SOH /\ \A i \in p + 2 .. p + x - 1 : At(s, i) # SOH
    <3>1. At(s, p + x) = SOH
      BY <2>1, <1>1, <1>0
    <3>2. ASSUME NEW i \in p + 2 .. p + x - 1 PROVE At(s, i) # SOH
      <4>1. i - p \in 2 .. x - 1 /\ i - p \in 0 .. Len(buf) - 1 /\ i = p + (i - p)
        BY <2>1, <1>0
      <4> QED BY <4>1, <2>1, <1>1
    <3> QED BY <3>1, <3>2
  <2>3. q = p + x
    BY <2>1, <2>2, <1>0, <1>2
  <2>4. \A y \in BodyLengthEnds(p + x) : ~BodyLengthField(s, p + x, y)
    BY <1>5, <2>1, ExtendsNoBodyLength
  <2> QED BY <2>3, <2>4, <1>2
<1>6. ASSUME NEW x \in BeginStringEnds(0), NEW y \in BodyLengthEnds(x),
             Preamble(buf, 0, x, y), Number(Slice(buf, x + 3, y)) \in Nat,
             \/ FrameEnd(buf, x, y) > max_frame_size
             \/ FrameEnd(buf, x, y) <= Len(buf) /\ ~IsFrame(buf, 0, x, y)
      PROVE  ~IsFrame(s, p, q, r) /\ ~IsOpenFrame(s, p, q, r)
  <2> DEFINE e == FrameEnd(buf, x, y)
             n == Number(Slice(buf, x + 3, y))
  <2>0. x \in Nat /\ y \in Nat /\ x + 3 <= y /\ y <= Len(buf)
    BY <1>6, <1>0, FramingAssumption DEF BeginStringEnds, BodyLengthEnds, Preamble
  <2>1. /\ Preamble(s, p, p + x, p + y)
        /\ p + x \in BeginStringEnds(p) /\ p + y \in BodyLengthEnds(p + x)
    BY <1>6, ExtendsPreamble
  <2>2. q = p + x /\ r = p + y
    BY <2>1, PreambleUnique
  <2>3. e = y + 1 + n + 7 /\ n \in Nat
    BY <1>6 DEF FrameEnd
  <2>4. FrameEnd(s, q, r) = p + e
    <3>1. n \in Nat => FrameEnd(s, p + x, p + y) = p + e
      BY <2>0, ExtendsFrameEnd
    <3> HIDE DEF n, e
    <3> QED BY <3>1, <2>2, <2>3
  <2> HIDE DEF n, e
  <2>5. e \in Nat /\ (p + e) - p = e
    BY <2>0, <2>3
  <2>6. CASE e > max_frame_size
    BY <2>4, <2>5, <2>6, <1>0 DEF IsFrame, IsOpenFrame
  <2>7. CASE e <= Len(buf) /\ ~IsFrame(buf, 0, x, y)
    <3>1. ~IsFrame(s, p, p + x, p + y)
      BY <1>6, <2>7, ExtendsFrame DEF e
    <3>2. ~(p + e > Len(s))
      BY <2>5, <2>7, <1>0 DEF Extends
    <3> QED BY <2>2, <2>4, <3>1, <3>2 DEF IsOpenFrame
  <2> QED BY <1>6, <2>6, <2>7 DEF e
<1> QED BY <1>3, <1>4, <1>5, <1>6 DEF NoFrame

\* Where the buffer shows no whole frame, the frame that starts there in the
\* stream, if one does, ends beyond the buffer.
LEMMA NoWholeFrameInStream ==
  ASSUME NEW s \in Seq(Byte), NEW p \in Nat, NEW buf \in Seq(Byte), Extends(s, p, buf),
         NoWholeFrame(buf), NEW q \in BeginStringEnds(p), NEW r \in BodyLengthEnds(q)
  PROVE  Preamble(s, p, q, r) => FrameEnd(s, q, r) > p + Len(buf)
<1> SUFFICES ASSUME Preamble(s, p, q, r)
             PROVE  FrameEnd(s, q, r) > p + Len(buf)
  OBVIOUS
<1>0. /\ Len(buf) \in Nat /\ Len(s) \in Nat /\ q \in Nat /\ r \in Nat /\ q >= p + 2
      /\ r >= q + 4
  BY FramingAssumption DEF BeginStringEnds, BodyLengthEnds
<1>1. \A i \in 0 .. Len(buf) - 1 : At(s, p + i) = At(buf, i)
  BY ExtendsAt
<1>2. /\ At(s, q) = SOH /\ \A i \in p + 2 .. q - 1 : At(s, i) # SOH
      /\ r < Len(s) /\ At(s, r) = SOH /\ \A i \in q + 3 .. r - 1 : At(s, i) \in Digit
  BY DEF Preamble
<1>3. FrameEnd(s, q, r) \in Nat /\ FrameEnd(s, q, r) >= r + 8
  <2> DEFINE n == Number(Slice(s, q + 3, r))
  <2>1. q + 3 \in Nat /\ q + 3 <= r /\ r <= Len(s)
    BY <1>0, <1>2
  <2>2. AllDigits(Slice(s, q + 3, r)) /\ Slice(s, q + 3, r) \in Seq(Digit)
    BY <1>0, <1>2, <2>1, SliceDigits
  <2>3. n \in Nat
    BY <2>2, NumberIsNat
  <2>4. FrameEnd(s, q, r) = r + 1 + n + 7
    BY DEF FrameEnd, CHECKSUM_FIELD_LEN
  <2> HIDE DEF n
  <2> QED BY <1>0, <2>3, <2>4
<1>4. CASE r >= p + Len(buf)
  BY <1>0, <1>3, <1>4
<1>5. CASE r < p + Len(buf)
  <2>1. /\ q - p \in 2 .. Len(buf) - 1 /\ q = p + (q - p) /\ At(buf, q - p) = SOH
        /\ r - p \in q - p + 3 .. Len(buf) - 1 /\ r = p + (r - p) /\ At(buf, r - p) = SOH
    BY <1>0, <1>1, <1>2, <1>5
  <2>2. ~(Len(buf) < PREFIX_LEN) /\ ~\A i \in 2 .. Len(buf) - 1 : At(buf, i) # SOH
    BY <1>0, <1>5, <2>1 DEF PREFIX_LEN
  <2>3. ASSUME NEW x \in BeginStringEnds(0), BeginStringField(buf, 0, x) PROVE q = p + x
    <3>1. x \in Nat /\ x >= 2 /\ x < Len(buf) /\ At(buf, x) = SOH
          /\ \A i \in 2 .. x - 1 : At(buf, i) # SOH
      BY <2>3, FramingAssumption DEF BeginStringEnds, BeginStringField
    <3>2. At(s, p + x) = SOH
      BY <3>1, <1>1, <1>0
    <3>3. ~(x < q - p) /\ ~(q - p < x)
      <4>1. ASSUME x < q - p PROVE FALSE
        BY <3>1, <3>2, <4>1, <1>0, <1>2
      <4>2. ASSUME q - p < x PROVE FALSE
        BY <3>1, <4>2, <1>0, <2>1
      <4> QED BY <4>1, <4>2
    <3> QED BY <3>1, <3>3, <1>0
  <2>4. ASSUME NEW x \in BeginStringEnds(0), BeginStringField(buf, 0, x),
               \A i \in x + 3 .. Len(buf) - 1 : At(buf, i) # SOH
        PROVE  FALSE
    <3>1. q = p + x /\ x \in Nat
      BY <2>3, <2>4 DEF BeginStringEnds
    <3>2. r - p \in x + 3 .. Len(buf) - 1
      BY <2>1, <3>1, <1>0
    <3> QED BY <2>1, <2>4, <3>2
  <2>5. ASSUME NEW x \in BeginStringEnds(0), NEW y \in BodyLengthEnds(x),
               Preamble(buf, 0, x, y), Number(Slice(buf, x + 3, y)) \in Nat,
               FrameEnd(buf, x, y) > Len(buf)
        PROVE  FrameEnd(s, q, r) > p + Len(buf)
    <3>0. x \in Nat /\ y \in Nat /\ x + 3 <= y /\ y <= Len(buf)
      BY <2>5, <1>0, FramingAssumption DEF BeginStringEnds, BodyLengthEnds, Preamble
    <3>1. /\ Preamble(s, p, p + x, p + y)
          /\ p + x \in BeginStringEnds(p) /\ p + y \in BodyLengthEnds(p + x)
      BY <2>5, ExtendsPreamble
    <3>2. q = p + x /\ r = p + y
      BY <3>1, PreambleUnique
    <3>3. FrameEnd(s, q, r) = p + FrameEnd(buf, x, y)
      BY <2>5, <3>0, <3>2, ExtendsFrameEnd
    <3>4. FrameEnd(buf, x, y) \in Nat
      <4> DEFINE n == Number(Slice(buf, x + 3, y))
      <4>1. FrameEnd(buf, x, y) = y + 1 + n + 7 /\ n \in Nat
        BY <2>5 DEF FrameEnd, CHECKSUM_FIELD_LEN
      <4> HIDE DEF n
      <4> QED BY <3>0, <4>1
    <3> QED BY <2>5, <3>3, <3>4, <1>0
  <2> QED BY <2>2, <2>4, <2>5 DEF NoWholeFrame
<1> QED BY <1>0, <1>4, <1>5

\* scan is right about the stream from the bytes it has: a frame it returns is
\* the message there; one it discards for its checksum or MsgType has that
\* extent and is no message; where it resyncs no frame starts, now or once
\* more bytes come, and none starts in what it skips; and it asks for more
\* bytes only while it has fewer than a frame or a preamble can take, and
\* never when it has the whole frame.
THEOREM ScanIsRight ==
  ASSUME NEW s \in Seq(Byte), NEW p \in Nat, NEW buf \in Seq(Byte), Extends(s, p, buf)
  PROVE  \/ \E reason \in StructuralReason, n \in 1 .. Len(buf) :
               /\ scan(buf) = Garbled(reason, n)
               /\ \A q \in BeginStringEnds(p) : \A r \in BodyLengthEnds(q) :
                     ~IsFrame(s, p, q, r) /\ ~IsOpenFrame(s, p, q, r)
               /\ \A i \in p + 1 .. p + n - 1 : ~Matches(s, i, BEGIN_STRING_PREFIX)
         \/ /\ scan(buf) = Incomplete
            /\ \/ Len(buf) < max_frame_size
               \/ Len(buf) < MAX_BEGIN_STRING_LEN + 4 + MAX_BODY_LENGTH_DIGITS
            /\ \A q \in BeginStringEnds(p) : \A r \in BodyLengthEnds(q) :
                  Preamble(s, p, q, r) => FrameEnd(s, q, r) > p + Len(buf)
         \/ \E n \in 1 .. Len(buf) :
            \E q \in BeginStringEnds(p) : \E r \in BodyLengthEnds(q) :
              /\ IsFrame(s, p, q, r) /\ FrameEnd(s, q, r) = p + n
              /\ \/ /\ ~IsMessage(s, p, q, r)
                    /\ \E reason \in PostStructuralReason : scan(buf) = Garbled(reason, n)
                 \/ /\ IsMessage(s, p, q, r)
                    /\ scan(buf).kind = "Frame" /\ scan(buf).len = n
<1>1. CASE \E reason \in StructuralReason :
             /\ scan(buf) = structural_garble(reason, buf)
             /\ Len(buf) >= 1
             /\ Len(buf) >= PREFIX_LEN \/ ~MatchesPrefix(buf, 0, Len(buf))
             /\ NoFrame(buf)
  <2> DEFINE n == find_next_begin_string(buf)
  <2>1. /\ n \in 1 .. Len(buf)
        /\ \A i \in p + 1 .. p + n - 1 : ~Matches(s, i, BEGIN_STRING_PREFIX)
    BY <1>1, FindNextBeginString
  <2>2. \E reason \in StructuralReason : scan(buf) = Garbled(reason, n)
    BY <1>1 DEF structural_garble
  <2>3. \A q \in BeginStringEnds(p) : \A r \in BodyLengthEnds(q) :
          ~IsFrame(s, p, q, r) /\ ~IsOpenFrame(s, p, q, r)
    BY <1>1, NoFrameInStream
  <2> HIDE DEF n
  <2> QED BY <2>1, <2>2, <2>3
<1>2. ASSUME NEW x \in BeginStringEnds(0), NEW y \in BodyLengthEnds(x),
             IsFrame(buf, 0, x, y), Number(Slice(buf, x + 3, y)) \in Nat
      PROVE  /\ FrameEnd(buf, x, y) \in 1 .. Len(buf)
             /\ p + x \in BeginStringEnds(p) /\ p + y \in BodyLengthEnds(p + x)
             /\ FrameEnd(s, p + x, p + y) = p + FrameEnd(buf, x, y)
             /\ IsFrame(s, p, p + x, p + y)
             /\ IsMessage(s, p, p + x, p + y) <=> IsMessage(buf, 0, x, y)
  <2>1. Preamble(buf, 0, x, y) /\ FrameEnd(buf, x, y) <= Len(buf)
    BY <1>2 DEF IsFrame
  <2>2. FrameEnd(buf, x, y) \in 1 .. Len(buf)
    <3>1. y \in Nat
      BY FramingAssumption DEF BeginStringEnds, BodyLengthEnds
    <3> DEFINE n == Number(Slice(buf, x + 3, y))
    <3>2. FrameEnd(buf, x, y) = y + 1 + n + 7 /\ n \in Nat
      BY <1>2 DEF FrameEnd
    <3> HIDE DEF n
    <3> QED BY <2>1, <3>1, <3>2
  <2>3. p + x \in BeginStringEnds(p) /\ p + y \in BodyLengthEnds(p + x)
    BY <2>1, ExtendsPreamble
  <2>4. /\ FrameEnd(s, p + x, p + y) = p + FrameEnd(buf, x, y)
        /\ IsFrame(s, p, p + x, p + y)
        /\ IsMessage(s, p, p + x, p + y) <=> IsMessage(buf, 0, x, y)
    BY <1>2, <2>1, ExtendsFrame
  <2> QED BY <2>2, <2>3, <2>4
<1>3. CASE \E x \in BeginStringEnds(0) : \E y \in BodyLengthEnds(x) :
             /\ IsFrame(buf, 0, x, y)
             /\ Number(Slice(buf, x + 3, y)) \in Nat
             /\ \/ /\ ~IsMessage(buf, 0, x, y)
                   /\ \E reason \in PostStructuralReason :
                        scan(buf) = Garbled(reason, FrameEnd(buf, x, y))
                \/ /\ IsMessage(buf, 0, x, y)
                   /\ scan(buf).kind = "Frame"
                   /\ scan(buf).len = FrameEnd(buf, x, y)
  <2>1. PICK x \in BeginStringEnds(0) : \E y \in BodyLengthEnds(x) :
             /\ IsFrame(buf, 0, x, y)
             /\ Number(Slice(buf, x + 3, y)) \in Nat
             /\ \/ /\ ~IsMessage(buf, 0, x, y)
                   /\ \E reason \in PostStructuralReason :
                        scan(buf) = Garbled(reason, FrameEnd(buf, x, y))
                \/ /\ IsMessage(buf, 0, x, y)
                   /\ scan(buf).kind = "Frame"
                   /\ scan(buf).len = FrameEnd(buf, x, y)
    BY <1>3, Zenon
  <2>2. PICK y \in BodyLengthEnds(x) :
             /\ IsFrame(buf, 0, x, y)
             /\ Number(Slice(buf, x + 3, y)) \in Nat
             /\ \/ /\ ~IsMessage(buf, 0, x, y)
                   /\ \E reason \in PostStructuralReason :
                        scan(buf) = Garbled(reason, FrameEnd(buf, x, y))
                \/ /\ IsMessage(buf, 0, x, y)
                   /\ scan(buf).kind = "Frame"
                   /\ scan(buf).len = FrameEnd(buf, x, y)
    BY <2>1, Zenon
  <2> DEFINE n == FrameEnd(buf, x, y)
             q == p + x
             r == p + y
  <2>3. /\ n \in 1 .. Len(buf) /\ q \in BeginStringEnds(p) /\ r \in BodyLengthEnds(q)
        /\ FrameEnd(s, q, r) = p + n /\ IsFrame(s, p, q, r)
        /\ IsMessage(s, p, q, r) <=> IsMessage(buf, 0, x, y)
    BY <2>2, <1>2
  <2>4. \/ /\ ~IsMessage(buf, 0, x, y)
           /\ \E reason \in PostStructuralReason : scan(buf) = Garbled(reason, n)
        \/ /\ IsMessage(buf, 0, x, y)
           /\ scan(buf).kind = "Frame" /\ scan(buf).len = n
    BY <2>2
  <2> HIDE DEF n, q, r
  <2> QED BY <2>3, <2>4
<1>4. NoWholeFrame(buf) =>
        \A q \in BeginStringEnds(p) : \A r \in BodyLengthEnds(q) :
           Preamble(s, p, q, r) => FrameEnd(s, q, r) > p + Len(buf)
  BY NoWholeFrameInStream
<1> QED BY <1>1, <1>3, <1>4, ScanCases
=============================================================================
