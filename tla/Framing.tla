------------------------------- MODULE Framing -------------------------------
(***************************************************************************)
(* Delimiting one checksum-verified FIX message at the front of a buffer:  *)
(* Scanner::scan and the functions it calls (framing.rs).                  *)
(*                                                                         *)
(* The second half gives the declarative reading of the same wire format,  *)
(* IsFrame and IsMessage, which says what a message is in a complete       *)
(* stream without saying how, or in which order, to look for it.           *)
(***************************************************************************)
EXTENDS Bytes

CONSTANTS
  MAX_BEGIN_STRING_LEN,    \* longest BeginString field, "8=" to before its SOH
  MAX_BODY_LENGTH_DIGITS,  \* longest BodyLength value, in digits
  max_frame_size           \* Scanner's cap on the length of a frame

\* The bytes of "8=FIX", "9=", "35=" and "10=".
BEGIN_STRING_PREFIX == <<56, 61, 70, 73, 88>>
BODY_LENGTH_TAG == <<57, 61>>
MSG_TYPE_TAG == <<51, 53, 61>>
CHECKSUM_TAG == <<49, 48, 61>>

PREFIX_LEN == 5
CHECKSUM_FIELD_LEN == 7

ASSUME FramingAssumption ==
  /\ MAX_BEGIN_STRING_LEN \in Nat /\ MAX_BEGIN_STRING_LEN >= PREFIX_LEN
  /\ MAX_BODY_LENGTH_DIGITS \in Nat \ {0}
  /\ max_frame_size \in Nat

-----------------------------------------------------------------------------
\* The first n bytes of BEGIN_STRING_PREFIX are found in s at offset i.
MatchesPrefix(s, i, n) ==
  \A j \in 1 .. n : s[i + j] = BEGIN_STRING_PREFIX[j]

-----------------------------------------------------------------------------
(* What a scan, or one of its steps, comes to. *)

Incomplete == [kind |-> "Incomplete"]

Garbled(reason, skipped) ==
  [kind |-> "Garbled", reason |-> reason, skipped |-> skipped]

Ok(value, next) == [kind |-> "Ok", value |-> value, next |-> next]

StructuralReason ==
  {"MissingBeginString", "MalformedBeginString", "MissingBodyLength",
   "MalformedBodyLength", "BodyLengthMismatch", "FrameTooLarge"}

PostStructuralReason ==
  {"MalformedChecksum", "ChecksumMismatch", "MissingMsgType"}

GarbledReason == StructuralReason \cup PostStructuralReason

\* Faults: the resync goes past the buffer, or drops a tail that could still
\* become "8=FIX".
find_next_begin_string_PastEnd(buf) ==
  LET found == {i \in 1 .. Len(buf) - PREFIX_LEN : MatchesPrefix(buf, i, PREFIX_LEN)}
  IN  IF found # {} THEN Least(found) ELSE Len(buf) + 1

find_next_begin_string_NoTail(buf) ==
  LET found == {i \in 1 .. Len(buf) - PREFIX_LEN : MatchesPrefix(buf, i, PREFIX_LEN)}
  IN  IF found # {} THEN Least(found) ELSE Len(buf)

\* Bytes to skip to reach the next possible frame start after offset 0: the
\* next whole "8=FIX", else the longest tail that could still become one,
\* else everything.
find_next_begin_string(buf) ==
  LET found == {i \in 1 .. Len(buf) - PREFIX_LEN : MatchesPrefix(buf, i, PREFIX_LEN)}
      max_k == Lesser(PREFIX_LEN - 1, Len(buf))
      tails == {i \in Len(buf) - max_k .. Len(buf) - 1 :
                  MatchesPrefix(buf, i, Len(buf) - i)}
  IN  IF found # {} THEN Least(found)
      ELSE IF tails # {} THEN Least(tails)
      ELSE Len(buf)

structural_garble(reason, buf) == Garbled(reason, find_next_begin_string(buf))

post_structural_garble(reason, frame_len) == Garbled(reason, frame_len)

\* Fault: a BeginString that is still arriving is taken for a malformed one.
parse_begin_string_NoWait(buf) ==
  LET search_end == Lesser(Len(buf), MAX_BEGIN_STRING_LEN + 1)
      sohs == Positions(buf, 2, search_end, SOH)
  IN  IF sohs # {} THEN Ok(Slice(buf, 2, Least(sohs)), Least(sohs) + 1)
      ELSE structural_garble("MalformedBeginString", buf)

\* The first field; next is the offset of the second.
parse_begin_string(buf) ==
  LET search_end == Lesser(Len(buf), MAX_BEGIN_STRING_LEN + 1)
      sohs == Positions(buf, 2, search_end, SOH)
  IN  IF sohs # {} THEN Ok(Slice(buf, 2, Least(sohs)), Least(sohs) + 1)
      ELSE IF Len(buf) <= MAX_BEGIN_STRING_LEN THEN Incomplete
      ELSE structural_garble("MalformedBeginString", buf)

\* The second field, starting at offset start; next is where the body starts.
parse_body_length(buf, start) ==
  LET digits_start == start + 2
      search_end == Lesser(Len(buf), digits_start + MAX_BODY_LENGTH_DIGITS + 1)
      sohs == Positions(buf, digits_start, search_end, SOH)
      digits == Slice(buf, digits_start, Least(sohs))
  IN  IF Len(buf) - start < 2 THEN Incomplete
      ELSE IF ~Matches(buf, start, BODY_LENGTH_TAG)
        THEN structural_garble("MissingBodyLength", buf)
      ELSE IF sohs = {}
        THEN IF Len(buf) <= digits_start + MAX_BODY_LENGTH_DIGITS
               THEN Incomplete
               ELSE structural_garble("MalformedBodyLength", buf)
      ELSE IF Len(digits) = 0 \/ ~AllDigits(digits)
        THEN structural_garble("MalformedBodyLength", buf)
      ELSE Ok(Number(digits), Least(sohs) + 1)

\* Fault: the bytes of a frame are waited for before its length is capped.
validated_frame_len_WaitFirst(buf, body_start, body_length) ==
  LET frame_len == body_start + body_length + CHECKSUM_FIELD_LEN
  IN  IF Len(buf) < frame_len THEN Incomplete
      ELSE IF frame_len > max_frame_size THEN structural_garble("FrameTooLarge", buf)
      ELSE Ok(frame_len, frame_len)

\* The length BodyLength implies, bounded by max_frame_size and buffered.
validated_frame_len(buf, body_start, body_length) ==
  LET frame_len == body_start + body_length + CHECKSUM_FIELD_LEN
  IN  IF frame_len > max_frame_size THEN structural_garble("FrameTooLarge", buf)
      ELSE IF Len(buf) < frame_len THEN Incomplete
      ELSE Ok(frame_len, frame_len)

verify_trailer_start(buf, checksum_start) ==
  IF /\ At(buf, checksum_start - 1) = SOH
     /\ Matches(buf, checksum_start, CHECKSUM_TAG)
    THEN Ok(TRUE, checksum_start)
    ELSE structural_garble("BodyLengthMismatch", buf)

verify_checksum(buf, checksum_start) ==
  LET frame_len == checksum_start + CHECKSUM_FIELD_LEN
      digits == Slice(buf, checksum_start + 3, checksum_start + 6)
  IN  IF At(buf, checksum_start + 6) # SOH \/ ~AllDigits(digits)
        THEN post_structural_garble("MalformedChecksum", frame_len)
      ELSE IF Checksum(Slice(buf, 0, checksum_start)) # Number(digits)
        THEN post_structural_garble("ChecksumMismatch", frame_len)
      ELSE Ok(TRUE, frame_len)

\* The third field: "35=" at the start of the body, up to the body's first SOH.
parse_msg_type(buf, body_start, body_length) ==
  LET frame_len == body_start + body_length + CHECKSUM_FIELD_LEN
      sohs == Positions(buf, body_start + 3, body_start + body_length, SOH)
  IN  IF \/ body_length < 3
         \/ ~Matches(buf, body_start, MSG_TYPE_TAG)
         \/ sohs = {}
        THEN post_structural_garble("MissingMsgType", frame_len)
        ELSE Ok(Slice(buf, body_start + 3, Least(sohs)), frame_len)

\* Scanner::scan.  The steps run in this order and the first that is not Ok
\* is the outcome.
scan(buf) ==
  LET begin_string == parse_begin_string(buf)
      body_length == parse_body_length(buf, begin_string.next)
      frame_len == validated_frame_len(buf, body_length.next, body_length.value)
      checksum_start == body_length.next + body_length.value
      trailer == verify_trailer_start(buf, checksum_start)
      checksum == verify_checksum(buf, checksum_start)
      msg_type == parse_msg_type(buf, body_length.next, body_length.value)
  IN  IF ~MatchesPrefix(buf, 0, Lesser(Len(buf), PREFIX_LEN))
        THEN structural_garble("MissingBeginString", buf)
      ELSE IF Len(buf) < PREFIX_LEN THEN Incomplete
      ELSE IF begin_string.kind # "Ok" THEN begin_string
      ELSE IF body_length.kind # "Ok" THEN body_length
      ELSE IF frame_len.kind # "Ok" THEN frame_len
      ELSE IF trailer.kind # "Ok" THEN trailer
      ELSE IF checksum.kind # "Ok" THEN checksum
      ELSE IF msg_type.kind # "Ok" THEN msg_type
      ELSE [kind |-> "Frame", len |-> frame_len.value,
            begin_string |-> begin_string.value,
            body_length |-> body_length.value, msg_type |-> msg_type.value]

-----------------------------------------------------------------------------
(* The wire format, declaratively. *)

\* Where the SOHs that end BeginString and BodyLength may be.
BeginStringEnds(p) == p + 2 .. p + MAX_BEGIN_STRING_LEN
BodyLengthEnds(q) == q + 4 .. q + 3 + MAX_BODY_LENGTH_DIGITS

FrameMayStart(s, p) == Matches(s, p, BEGIN_STRING_PREFIX)

\* s has, at offset p, a BeginString field ended by the SOH at q and a
\* BodyLength field ended by the SOH at r.
Preamble(s, p, q, r) ==
  /\ Matches(s, p, BEGIN_STRING_PREFIX)
  /\ q < Len(s) /\ At(s, q) = SOH
  /\ \A i \in p + 2 .. q - 1 : At(s, i) # SOH
  /\ Matches(s, q + 1, BODY_LENGTH_TAG)
  /\ r < Len(s) /\ At(s, r) = SOH
  /\ \A i \in q + 3 .. r - 1 : At(s, i) \in Digit

\* Where the frame with that preamble ends, by its BodyLength.
FrameEnd(s, q, r) ==
  r + 1 + Number(Slice(s, q + 3, r)) + CHECKSUM_FIELD_LEN

\* A preamble whose frame is of acceptable size and ends on a CheckSum tag
\* at a field boundary: the extent of the frame is s[p..e].
IsFrame(s, p, q, r) ==
  LET e == FrameEnd(s, q, r)
  IN  /\ Preamble(s, p, q, r)
      /\ e <= Len(s) /\ e - p <= max_frame_size
      /\ At(s, e - 8) = SOH
      /\ Matches(s, e - 7, CHECKSUM_TAG)

\* The CheckSum field that ends at e is right for the frame that starts at p.
ChecksumHolds(s, p, e) ==
  /\ At(s, e - 1) = SOH
  /\ AllDigits(Slice(s, e - 4, e - 1))
  /\ Number(Slice(s, e - 4, e - 1)) = Checksum(Slice(s, p, e - 7))

\* The first field of the body, which starts after r, is a MsgType.
MsgTypeFirst(s, r, e) ==
  /\ r + 4 <= e - 7
  /\ Matches(s, r + 1, MSG_TYPE_TAG)

IsMessage(s, p, q, r) ==
  /\ IsFrame(s, p, q, r)
  /\ ChecksumHolds(s, p, FrameEnd(s, q, r))
  /\ MsgTypeFirst(s, r, FrameEnd(s, q, r))

\* The stream ends inside a frame of acceptable size.
IsOpenFrame(s, p, q, r) ==
  /\ Preamble(s, p, q, r)
  /\ FrameEnd(s, q, r) > Len(s)
  /\ FrameEnd(s, q, r) - p <= max_frame_size
=============================================================================
