------------------------ MODULE TokenizeMessageProofs ------------------------
(***************************************************************************)
(* What Tokenizer::tokenize accepts and how it splits it, proved for all   *)
(* bytes, all separators, all sets of length tags and every cap.           *)
(*                                                                         *)
(* A field is taken without looking at the ones before it but for the      *)
(* length the last one stated, so TokenizerLemmas!NextField says all there *)
(* is to know of a turn of the loop; the invariant IInv that turns keep is *)
(* that data_len is what the last field states and pos is just after it.   *)
(* That tokenize accepts exactly one message is ScanOfOneMessage, which    *)
(* rests on what FramingProofs proves of scan.                             *)
(***************************************************************************)
EXTENDS TokenizeMessage, FramingProofs, TokenizerLemmas

-----------------------------------------------------------------------------
(* What is accepted. *)

\* b is exactly one message, as IsOneMessage says it of the input.
OneMessage(b) ==
  \E q \in BeginStringEnds(0) : \E r \in BodyLengthEnds(q) :
     IsMessage(b, 0, q, r) /\ FrameEnd(b, q, r) = Len(b)

LEMMA WholeExtends == ASSUME NEW b \in Seq(Byte) PROVE Extends(b, 0, b)
<1> QED BY DEF Extends

\* scan returns a frame as long as the bytes it is given when they are exactly
\* one message, and only then.
LEMMA ScanOfOneMessage ==
  ASSUME NEW b \in Seq(Byte)
  PROVE  /\ OneMessage(b) <=> scan(b).kind = "Frame" /\ scan(b).len = Len(b)
         /\ scan(b).kind \in {"Frame", "Incomplete", "Garbled"}
         /\ scan(b).kind = "Garbled" => scan(b).reason \in GarbledReason
<1>0. /\ Len(b) \in Nat /\ Extends(b, 0, b) /\ 0 \in Nat
      /\ Incomplete.kind = "Incomplete"
      /\ \A reason, n : Garbled(reason, n).kind = "Garbled" /\ Garbled(reason, n).reason = reason
      /\ StructuralReason \subseteq GarbledReason /\ PostStructuralReason \subseteq GarbledReason
  BY WholeExtends DEF Incomplete, Garbled, GarbledReason
<1>1. CASE \E reason \in StructuralReason, n \in 1 .. Len(b) :
             /\ scan(b) = Garbled(reason, n)
             /\ \A q \in BeginStringEnds(0) : \A r \in BodyLengthEnds(q) :
                   ~IsFrame(b, 0, q, r) /\ ~IsOpenFrame(b, 0, q, r)
  <2>1. ~OneMessage(b)
    BY <1>1 DEF OneMessage, IsMessage
  <2>2. scan(b).kind = "Garbled" /\ scan(b).reason \in GarbledReason
    BY <1>0, <1>1
  <2> QED BY <2>1, <2>2
<1>2. CASE /\ scan(b) = Incomplete
           /\ \A q \in BeginStringEnds(0) : \A r \in BodyLengthEnds(q) :
                 Preamble(b, 0, q, r) => FrameEnd(b, q, r) > 0 + Len(b)
  <2>1. ASSUME OneMessage(b) PROVE FALSE
    <3>0. PICK q \in BeginStringEnds(0) : \E r \in BodyLengthEnds(q) :
             IsMessage(b, 0, q, r) /\ FrameEnd(b, q, r) = Len(b)
      BY <2>1 DEF OneMessage
    <3>1. PICK r \in BodyLengthEnds(q) :
             IsMessage(b, 0, q, r) /\ FrameEnd(b, q, r) = Len(b)
      BY <3>0
    <3>2. Preamble(b, 0, q, r)
      BY <3>1 DEF IsMessage, IsFrame
    <3> QED BY <1>0, <1>2, <3>1, <3>2
  <2> QED BY <1>0, <1>2, <2>1
<1>3. ASSUME NEW n \in 1 .. Len(b), NEW q \in BeginStringEnds(0), NEW r \in BodyLengthEnds(q),
             IsFrame(b, 0, q, r), FrameEnd(b, q, r) = 0 + n,
             \/ /\ ~IsMessage(b, 0, q, r)
                /\ \E reason \in PostStructuralReason : scan(b) = Garbled(reason, n)
             \/ /\ IsMessage(b, 0, q, r)
                /\ scan(b).kind = "Frame" /\ scan(b).len = n
      PROVE  /\ OneMessage(b) <=> scan(b).kind = "Frame" /\ scan(b).len = Len(b)
             /\ scan(b).kind \in {"Frame", "Incomplete", "Garbled"}
             /\ scan(b).kind = "Garbled" => scan(b).reason \in GarbledReason
  <2>1. ASSUME OneMessage(b) PROVE IsMessage(b, 0, q, r) /\ n = Len(b)
    <3>0. PICK x \in BeginStringEnds(0) : \E y \in BodyLengthEnds(x) :
             IsMessage(b, 0, x, y) /\ FrameEnd(b, x, y) = Len(b)
      BY <2>1 DEF OneMessage
    <3>1. PICK y \in BodyLengthEnds(x) :
             IsMessage(b, 0, x, y) /\ FrameEnd(b, x, y) = Len(b)
      BY <3>0
    <3>2. Preamble(b, 0, x, y) /\ Preamble(b, 0, q, r)
      BY <1>3, <3>1 DEF IsMessage, IsFrame
    <3>3. q = x /\ r = y
      BY <3>2, PreambleUnique
    <3> QED BY <1>3, <3>1, <3>3
  <2>2. ASSUME IsMessage(b, 0, q, r), n = Len(b) PROVE OneMessage(b)
    BY <1>0, <1>3, <2>2 DEF OneMessage
  <2>3. CASE /\ ~IsMessage(b, 0, q, r)
             /\ \E reason \in PostStructuralReason : scan(b) = Garbled(reason, n)
    <3>1. scan(b).kind = "Garbled" /\ scan(b).reason \in GarbledReason
      BY <1>0, <2>3
    <3> QED BY <2>1, <2>3, <3>1
  <2>4. CASE /\ IsMessage(b, 0, q, r)
             /\ scan(b).kind = "Frame" /\ scan(b).len = n
    BY <2>1, <2>2, <2>4
  <2> QED BY <1>3, <2>3, <2>4
<1> QED BY <1>0, <1>1, <1>2, <1>3, ScanIsRight

\* A message ends in SOH.
LEMMA MessageEndsInSOH ==
  ASSUME NEW b, OneMessage(b)
  PROVE  At(b, Len(b) - 1) = SOH
<1> QED BY DEF OneMessage, IsMessage, ChecksumHolds

-----------------------------------------------------------------------------
(* The invariant. *)

\* What Tiling and SeparatorsOnlyInData say of the field i of fs.
FieldOK(b, sep, fs, i) ==
  /\ (IF i = 1 THEN 0 ELSE fs[i - 1].value_end + 1) <= fs[i].value_start
  /\ fs[i].value_start <= fs[i].value_end
  /\ fs[i].value_end <= Len(b)
  /\ fs[i].value_end < Len(b) => At(b, fs[i].value_end) = sep
  /\ fs[i].value_end = Len(b) => i = Len(fs)
  /\ Positions(b, fs[i].value_start, fs[i].value_end, sep) # {}
       => /\ i > 1
          /\ fs[i - 1].tag \in LengthTags
          /\ parse_u32(Value(b, fs[i - 1])) = fs[i].value_end - fs[i].value_start

\* The loop has taken fs and goes on at i, with d what the last field stated.
LoopInv(b, sep, fs, i, d) ==
  /\ fs \in Seq(FieldType)
  /\ i \in 0 .. Len(b) + 1 /\ d \in Nat \cup {None}
  /\ \A k \in 1 .. Len(fs) : FieldOK(b, sep, fs, k)
  /\ i = IF fs = <<>> THEN 0 ELSE fs[Len(fs)].value_end + 1
  /\ d = IF fs = <<>> THEN None ELSE pending_data_len(b, fs[Len(fs)])

\* A message was checked to be one before its fields are taken, and then no
\* field comes to the end of it without a separator.
CheckInv ==
  /\ status \in {"check_frame", "fields", "done"} \cup TokenizeError
  /\ Accepted => OneMessage(bytes) /\ pos <= Len(bytes)
  /\ status = "check_frame" => pos = 0
  /\ status \in TokenizeError => ~OneMessage(bytes)
  /\ status = "done" => TagEnds(bytes, pos, separator) = {}

IInv == input \in Inputs /\ LoopInv(bytes, separator, fields, pos, data_len) /\ CheckInv

LEMMA InputType ==
  ASSUME input \in Inputs
  PROVE  /\ bytes \in Seq(Byte) /\ separator \in Byte /\ Len(bytes) \in Nat
         /\ input.entry \in {"tokenize", "tokenize_fields"}
         /\ input.entry = "tokenize" => separator = SOH
<1>1. /\ bytes \in Seq(Byte) /\ separator \in Byte
      /\ input.entry \in {"tokenize", "tokenize_fields"}
      /\ input.entry = "tokenize" => separator = SOH
  BY InputAssumption DEF bytes, separator
<1> QED BY <1>1

LEMMA InitInv == Init => IInv
<1> SUFFICES ASSUME Init PROVE IInv
  OBVIOUS
<1>1. /\ input \in Inputs /\ pos = 0 /\ data_len = None /\ fields = <<>>
      /\ status = IF input.entry = "tokenize" THEN "check_frame" ELSE "fields"
  BY DEF Init
<1>2. bytes \in Seq(Byte) /\ Len(bytes) \in Nat
  BY <1>1, InputType
<1>3. LoopInv(bytes, separator, fields, pos, data_len)
  <2>1. fields \in Seq(FieldType) /\ Len(fields) = 0
    BY <1>1
  <2> QED BY <1>1, <1>2, <2>1 DEF LoopInv
<1>4. CheckInv
  BY <1>1 DEF CheckInv, Accepted, TokenizeError
<1> QED BY <1>1, <1>3, <1>4 DEF IInv

\* check_frame lets through exactly the messages.
LEMMA CheckFrameInv == IInv /\ check_frame => IInv'
<1> SUFFICES ASSUME IInv, check_frame PROVE IInv'
  OBVIOUS
<1>1. /\ input \in Inputs /\ status = "check_frame" /\ status' = FrameCheck(scan(bytes))
      /\ LoopInv(bytes, separator, fields, pos, data_len) /\ pos = 0
      /\ UNCHANGED <<input, pos, data_len, fields, bytes, separator>>
  BY DEF IInv, CheckInv, check_frame, bytes, separator
<1>2. bytes \in Seq(Byte) /\ Len(bytes) \in Nat
  BY <1>1, InputType
<1>3. \/ status' = "fields" /\ OneMessage(bytes)
      \/ status' \in TokenizeError /\ ~OneMessage(bytes)
  <2> DEFINE x == scan(bytes)
  <2>1. /\ OneMessage(bytes) <=> x.kind = "Frame" /\ x.len = Len(bytes)
        /\ x.kind \in {"Frame", "Incomplete", "Garbled"}
    BY <1>2, ScanOfOneMessage
  <2> HIDE DEF x
  <2>2. status' = CASE x.kind = "Frame" /\ x.len = Len(bytes) -> "fields"
                    [] x.kind = "Frame" /\ x.len # Len(bytes) -> "TrailingBytes"
                    [] x.kind = "Incomplete" -> "Incomplete"
                    [] x.kind = "Garbled" -> IF x.reason = "FrameTooLarge"
                                               THEN "TooLargeToIndex" ELSE "Garbled"
    BY <1>1 DEF FrameCheck, x
  <2> QED BY <2>1, <2>2 DEF TokenizeError
<1>4. CheckInv'
  BY <1>1, <1>2, <1>3 DEF CheckInv, Accepted, TokenizeError
<1> QED BY <1>1, <1>4 DEF IInv

\* One turn of the loop, for any bytes.
LEMMA OneTurn ==
  ASSUME NEW b \in Seq(Byte), NEW sep \in Byte, NEW fs, NEW i, NEW d,
         LoopInv(b, sep, fs, i, d), TagEnds(b, i, sep) # {}
  PROVE  LET f == next_field(b, i, d, sep)
         IN  /\ f.value_end \in Nat
             /\ LoopInv(b, sep, Append(fs, f), f.value_end + 1, pending_data_len(b, f))
             /\ At(b, Len(b) - 1) = sep /\ sep # EQUALS => f.value_end < Len(b)
<1> DEFINE f == next_field(b, i, d, sep)
           gs == Append(fs, f)
           n == Len(fs)
<1>1. /\ fs \in Seq(FieldType) /\ n \in Nat /\ i \in Nat /\ d \in Nat \cup {None}
      /\ Len(b) \in Nat
      /\ \A k \in 1 .. n : FieldOK(b, sep, fs, k)
      /\ i = IF fs = <<>> THEN 0 ELSE fs[n].value_end + 1
      /\ d = IF fs = <<>> THEN None ELSE pending_data_len(b, fs[n])
  BY DEF LoopInv
<1>2. /\ f \in FieldType
      /\ i < Len(b) /\ i <= f.value_start /\ f.value_start <= f.value_end
      /\ f.value_end <= Len(b)
      /\ f.value_end < Len(b) => At(b, f.value_end) = sep
      /\ Positions(b, f.value_start, f.value_end, sep) # {}
           => d # None /\ f.value_end - f.value_start = d
      /\ At(b, Len(b) - 1) = sep /\ sep # EQUALS => f.value_end < Len(b)
  <2>1. i \in Nat /\ d \in Nat \cup {None}
    BY <1>1
  <2> QED BY <2>1, NextField
<1> HIDE DEF f
<1>3. /\ gs \in Seq(FieldType) /\ Len(gs) = n + 1 /\ gs # <<>>
      /\ \A k \in 1 .. n : gs[k] = fs[k]
      /\ gs[n + 1] = f
  BY <1>1, <1>2, AppendProperties
<1> HIDE DEF gs
<1>4. fs = <<>> <=> n = 0
  BY <1>1
<1>5. ASSUME NEW k \in 1 .. n PROVE FieldOK(b, sep, gs, k)
  <2>1. gs[k] = fs[k] /\ (k # 1 => k - 1 \in 1 .. n /\ gs[k - 1] = fs[k - 1])
    BY <1>1, <1>3
  <2>2. FieldOK(b, sep, fs, k)
    BY <1>1
  <2>3. fs[k] \in FieldType
    BY <1>1, ElementOfSeq
  <2>4. fs[k].value_end # Len(b)
    <3>1. ASSUME fs[k].value_end = Len(b) PROVE FALSE
      <4>1. k = n
        BY <2>2, <3>1 DEF FieldOK
      <4>2. i = Len(b) + 1
        BY <1>1, <1>4, <3>1, <4>1
      <4> QED BY <1>1, <1>2, <4>2
    <3> QED BY <3>1
  <2>5. k > 1 => k # 1
    OBVIOUS
  <2> QED BY <2>1, <2>2, <2>4, <2>5 DEF FieldOK
<1>6. FieldOK(b, sep, gs, n + 1)
  <2>1. (IF n + 1 = 1 THEN 0 ELSE gs[n + 1 - 1].value_end + 1) = i
    BY <1>1, <1>3, <1>4
  <2>2. ASSUME d # None
        PROVE  n + 1 > 1 /\ gs[n + 1 - 1].tag \in LengthTags
               /\ parse_u32(Value(b, gs[n + 1 - 1])) = d
    <3>1. fs # <<>> /\ d = pending_data_len(b, fs[n])
      BY <1>1, <2>2
    <3>2. n + 1 > 1 /\ gs[n + 1 - 1] = fs[n]
      BY <1>1, <1>3, <1>4, <3>1
    <3>3. fs[n].tag \in LengthTags /\ parse_u32(Value(b, fs[n])) = d
      BY <2>2, <3>1 DEF pending_data_len
    <3> QED BY <3>2, <3>3
  <2> QED BY <1>2, <1>3, <2>1, <2>2 DEF FieldOK
<1>7. pending_data_len(b, f) \in Nat \cup {None}
  <2>1. f.value_start \in Nat /\ f.value_end \in Nat
    BY <1>2 DEF FieldType
  <2>2. parse_u32(Value(b, f)) \in Nat \cup {None}
    BY <1>2, <2>1, ParseU32 DEF Value
  <2> QED BY <2>2 DEF pending_data_len
<1>8. LoopInv(b, sep, gs, f.value_end + 1, pending_data_len(b, f))
  <2>1. f.value_end + 1 \in 0 .. Len(b) + 1
    BY <1>1, <1>2 DEF FieldType
  <2>2. \A k \in 1 .. Len(gs) : FieldOK(b, sep, gs, k)
    BY <1>1, <1>3, <1>5, <1>6
  <2> QED BY <1>3, <1>7, <2>1, <2>2 DEF LoopInv
<1>9. f.value_end \in Nat
  BY <1>2 DEF FieldType
<1> QED BY <1>2, <1>8, <1>9 DEF gs, f

LEMMA TakeFieldInv == IInv /\ TakeField => IInv'
<1> SUFFICES ASSUME IInv, TakeField PROVE IInv'
  OBVIOUS
<1> DEFINE f == next_field(bytes, pos, data_len, separator)
<1>1. /\ input \in Inputs /\ status = "fields" /\ TagEnds(bytes, pos, separator) # {}
      /\ LoopInv(bytes, separator, fields, pos, data_len) /\ CheckInv
      /\ fields' = Append(fields, f) /\ pos' = f.value_end + 1
      /\ data_len' = pending_data_len(bytes, f)
      /\ UNCHANGED <<input, status, bytes, separator>>
  BY DEF IInv, TakeField, bytes, separator
<1>2. /\ bytes \in Seq(Byte) /\ separator \in Byte /\ Len(bytes) \in Nat
      /\ input.entry = "tokenize" => separator = SOH
  BY <1>1, InputType
<1>3. /\ f.value_end \in Nat
      /\ LoopInv(bytes, separator, Append(fields, f), f.value_end + 1,
                 pending_data_len(bytes, f))
      /\ At(bytes, Len(bytes) - 1) = separator /\ separator # EQUALS
           => f.value_end < Len(bytes)
  BY <1>1, <1>2, OneTurn
<1> HIDE DEF f
<1>4. LoopInv(bytes, separator, fields, pos, data_len)'
  BY <1>1, <1>3
<1>5. Accepted => OneMessage(bytes) /\ f.value_end + 1 <= Len(bytes)
  <2> SUFFICES ASSUME Accepted PROVE OneMessage(bytes) /\ f.value_end + 1 <= Len(bytes)
    OBVIOUS
  <2>1. OneMessage(bytes) /\ separator = SOH
    BY <1>1, <1>2 DEF CheckInv, Accepted
  <2>2. f.value_end < Len(bytes)
    BY <1>3, <2>1, MessageEndsInSOH DEF SOH, EQUALS
  <2> QED BY <1>2, <1>3, <2>1, <2>2
<1>6. CheckInv'
  BY <1>1, <1>5 DEF CheckInv, Accepted, TokenizeError
<1> QED BY <1>1, <1>4, <1>6 DEF IInv

LEMMA EndOfFieldsInv == IInv /\ EndOfFields => IInv'
<1> SUFFICES ASSUME IInv, EndOfFields PROVE IInv'
  OBVIOUS
<1>1. /\ status = "fields" /\ TagEnds(bytes, pos, separator) = {} /\ status' = "done"
      /\ UNCHANGED <<input, pos, data_len, fields, bytes, separator>>
  BY DEF EndOfFields, bytes, separator
<1> QED BY <1>1 DEF IInv, CheckInv, Accepted, TokenizeError

LEMMA Invariance == Spec => []IInv
<1>1. IInv /\ UNCHANGED vars => IInv'
  BY DEF vars, IInv, CheckInv, Accepted, bytes, separator
<1>2. IInv /\ [Next]_vars => IInv'
  BY <1>1, CheckFrameInv, TakeFieldInv, EndOfFieldsInv DEF Next
<1> QED BY InitInv, <1>2, PTL DEF Spec

-----------------------------------------------------------------------------
\* The state of the tokenizer is always of its type: it never looks past the
\* end of the bytes by more than the separator it did not find there.
THEOREM TypeCorrect == Spec => []TypeOK
<1>1. IInv => TypeOK
  BY InputType DEF IInv, LoopInv, CheckInv, TypeOK, FieldType
<1> QED BY <1>1, Invariance, PTL

\* The fields that tokenize_fields returns lie end to end, a separator apart,
\* whatever the bytes.
THEOREM FieldsTileTheBytes == Spec => []Tiling
<1>1. IInv => Tiling
  BY DEF IInv, LoopInv, Tiling, FieldOK
<1> QED BY <1>1, Invariance, PTL

\* data_value_end never lets a value run over the field after it, and no other
\* value holds a separator.
THEOREM OnlyDataHoldsSeparators == Spec => []SeparatorsOnlyInData
<1>1. IInv => SeparatorsOnlyInData
  BY DEF IInv, LoopInv, SeparatorsOnlyInData, FieldOK
<1> QED BY <1>1, Invariance, PTL

\* tokenize accepts bytes that are exactly one message and no others, and
\* leaves none of them outside a field.
THEOREM AcceptsMessages == Spec => []AcceptsExactlyOneMessage
<1>1. IInv => AcceptsExactlyOneMessage
  <2> SUFFICES ASSUME IInv PROVE AcceptsExactlyOneMessage
    OBVIOUS
  <2>1. OneMessage(bytes) <=> IsOneMessage
    BY DEF OneMessage, IsOneMessage
  <2>2. /\ Accepted => OneMessage(bytes) /\ pos <= Len(bytes)
        /\ status \in TokenizeError => ~OneMessage(bytes)
        /\ status = "done" => TagEnds(bytes, pos, separator) = {}
        /\ pos \in 0 .. Len(bytes) + 1 /\ Len(bytes) \in Nat
        /\ input.entry = "tokenize" => separator = SOH
    BY InputType DEF IInv, CheckInv, LoopInv
  <2>3. ASSUME Accepted, status = "done" PROVE pos = Len(bytes)
    <3>1. At(bytes, Len(bytes) - 1) = separator
      BY <2>2, <2>3, MessageEndsInSOH DEF Accepted
    <3>2. pos < Len(bytes) => Len(bytes) - 1 \in TagEnds(bytes, pos, separator)
      BY <2>2, <3>1 DEF TagEnds
    <3> QED BY <2>2, <2>3, <3>2
  <2> QED BY <2>1, <2>2, <2>3 DEF AcceptsExactlyOneMessage
<1> QED BY <1>1, Invariance, PTL
=============================================================================
