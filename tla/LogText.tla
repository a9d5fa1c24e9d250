------------------------------- MODULE LogText -------------------------------
(***************************************************************************)
(* Messages in the text of a log: where one starts (log/start.rs), where   *)
(* it ends (log/end.rs), how a message logged with "^A" for SOH is copied  *)
(* (log/caret_a.rs) and what could not be verified about it (log.rs).      *)
(***************************************************************************)
EXTENDS Framing, Tokenizer, FiniteSets

CONSTANTS
  MAX_TAG_DIGITS,   \* longest tag read after a BeginString, in digits
  MAX_MESSAGE_LEN   \* longest message read before it is cut

ASSUME LogTextAssumption ==
  /\ MAX_TAG_DIGITS \in Nat \ {0}
  /\ MAX_MESSAGE_LEN \in Nat
  /\ MAX_MESSAGE_LEN > MAX_BEGIN_STRING_LEN + MAX_TAG_DIGITS + 3

LF == 10
CR == 13
CARET == 94
LETTER_A == 65
Alphanumeric == Digit \cup 65 .. 90 \cup 97 .. 122
BeginStringByte == Alphanumeric \cup {46}

BODY_LENGTH == 9
CHECKSUM == 10
MSG_TYPE == 35

\* Separator::CaretA, next to the bytes of Separator::Byte.
CaretA == 256

\* Where the run of bytes of S that starts at from ends.
RunEnd(bytes, from, S) ==
  Least({i \in from .. Len(bytes) : i < Len(bytes) => At(bytes, i) \notin S})

-----------------------------------------------------------------------------
(* start.rs *)

Start(separator) == [kind |-> "Start", separator |-> separator]
NotStart == [kind |-> "NotStart"]
Pending == [kind |-> "Pending"]

\* The separator after a BeginString value that ends at value_end.
CheckSeparator(bytes, value_end, override) ==
  LET found == At(bytes, value_end)
  IN  IF value_end = Len(bytes) THEN Pending
      ELSE IF override # None
        THEN IF found = override THEN Start(override) ELSE NotStart
      ELSE IF found \in {LF, CR} THEN NotStart
      ELSE IF found # CARET THEN Start(found)
      ELSE IF value_end + 1 = Len(bytes) THEN Pending
      ELSE IF At(bytes, value_end + 1) = LETTER_A THEN Start(CaretA)
      ELSE Start(CARET)

\* A tag of 1 .. MAX_TAG_DIGITS digits and its "=" at offset from.
CheckTag(bytes, from, separator) ==
  LET tag_end == RunEnd(bytes, from, Digit)
  IN  IF tag_end - from > MAX_TAG_DIGITS THEN NotStart
      ELSE IF tag_end = Len(bytes) THEN Pending
      ELSE IF tag_end > from /\ At(bytes, tag_end) = EQUALS THEN Start(separator)
      ELSE NotStart

\* The tag after the separator, if there is one at value_end.
CheckSeparated(bytes, value_end, separated) ==
  IF separated.kind # "Start" THEN separated
  ELSE CheckTag(bytes, value_end + (IF separated.separator = CaretA THEN 2 ELSE 1),
                separated.separator)

CheckValue(bytes, value_end, override) ==
  IF value_end > MAX_BEGIN_STRING_LEN THEN NotStart
  ELSE CheckSeparated(bytes, value_end, CheckSeparator(bytes, value_end, override))

check(bytes, override) ==
  IF ~MatchesPrefix(bytes, 0, Lesser(Len(bytes), PREFIX_LEN)) THEN NotStart
  ELSE IF Len(bytes) < PREFIX_LEN THEN Pending
  ELSE CheckValue(bytes, RunEnd(bytes, PREFIX_LEN, BeginStringByte), override)

\* The first of the candidates checked that is decided: Found at it, Pending
\* if more bytes may make it a start, or NotFound.
FirstDecided(checked, at_end) ==
  LET decided == {at \in DOMAIN checked :
                    \/ checked[at].kind = "Start"
                    \/ checked[at].kind = "Pending" /\ ~at_end}
      first == Least(decided)
  IN  IF decided = {} THEN [kind |-> "NotFound"]
      ELSE IF checked[first].kind = "Pending" THEN [kind |-> "Pending", at |-> first]
      ELSE [kind |-> "Found", at |-> first, separator |-> checked[first].separator]

\* The first message start at an offset from .. to - 1.
find_start(bytes, from, to, override, at_end) ==
  FirstDecided([at \in {i \in from .. to - 1 :
                          /\ At(bytes, i) = 56
                          /\ i > 0 => At(bytes, i - 1) \notin Digit} |->
                  check(Slice(bytes, at, Len(bytes)), override)], at_end)

-----------------------------------------------------------------------------
(* end.rs *)

End(len, consumed, truncated) ==
  [kind |-> "End", len |-> len, consumed |-> consumed, truncated |-> truncated]
NoEnd == [kind |-> "NotFound"]
Waiting == [kind |-> "Waiting"]

\* The bytes a message can hold; a CR that ends the log is a cut line break.
Capped(bytes, at_end) ==
  LET cut == at_end /\ Len(bytes) > 0 /\ At(bytes, Len(bytes) - 1) = CR
      len == IF cut THEN Len(bytes) - 1 ELSE Len(bytes)
  IN  Slice(bytes, 0, Lesser(len, MAX_MESSAGE_LEN))

\* Fault: a message at the cap still waits for its end.
CappedFinal_NoCap(bytes, at_end) == at_end

CappedFinal(bytes, at_end) ==
  at_end \/ Len(Capped(bytes, at_end)) = MAX_MESSAGE_LEN

\* Faults: the line break after the message is not waited for, or half of a
\* CR LF is taken.
after_message_NoWait(bytes, len, at_end) ==
  LET rest == Slice(bytes, len, Len(bytes))
  IN  IF rest \in {<<>>, <<CR>>} THEN End(len, len, FALSE)
      ELSE IF rest[1] = LF THEN End(len, len + 1, FALSE)
      ELSE IF rest[1] = CR /\ rest[2] = LF THEN End(len, len + 2, FALSE)
      ELSE End(len, len, FALSE)

after_message_HalfBreak(bytes, len, at_end) ==
  LET rest == Slice(bytes, len, Len(bytes))
  IN  IF rest \in {<<>>, <<CR>>}
        THEN IF at_end THEN End(len, len, FALSE) ELSE Waiting
      ELSE IF rest[1] \in {LF, CR} THEN End(len, len + 1, FALSE)
      ELSE End(len, len, FALSE)

\* The message ends at len; one line break after it goes with it.
after_message(bytes, len, at_end) ==
  LET rest == Slice(bytes, len, Len(bytes))
  IN  IF rest \in {<<>>, <<CR>>}
        THEN IF at_end THEN End(len, len, FALSE) ELSE Waiting
      ELSE IF rest[1] = LF THEN End(len, len + 1, FALSE)
      ELSE IF rest[1] = CR /\ rest[2] = LF THEN End(len, len + 2, FALSE)
      ELSE End(len, len, FALSE)

\* The message ends at the line break at offset at, CR LF or LF.
at_line_break(bytes, at, truncated) ==
  End(IF At(bytes, at - 1) = CR THEN at - 1 ELSE at, at + 1, truncated)

\* The end of the CheckSum field whose value starts at value_start.
ChecksumEnd(bytes, capped, value_start, separator, at_end) ==
  LET ends == {i \in value_start .. Len(capped) - 1 : At(capped, i) \in {separator, LF}}
  IN  IF ends = {}
        THEN IF CappedFinal(bytes, at_end) THEN End(Len(capped), Len(capped), FALSE)
             ELSE Waiting
      ELSE IF At(capped, Least(ends)) = separator
        THEN after_message(bytes, Least(ends) + 1, at_end)
      ELSE at_line_break(capped, Least(ends), FALSE)

\* The end a BodyLength with digits from .. digits_end - 1 gives.
EndByDigits(bytes, capped, from, digits_end, separator, at_end) ==
  LET pending == IF CappedFinal(bytes, at_end) THEN NoEnd ELSE Waiting
      body_length == parse_u32(Slice(capped, from, digits_end))
      trailer_start == digits_end + 1 + body_length
  IN  IF digits_end - from > MAX_BODY_LENGTH_DIGITS THEN NoEnd
      ELSE IF digits_end = Len(capped) THEN pending
      ELSE IF At(capped, digits_end) # separator \/ body_length = None THEN NoEnd
      ELSE IF Len(capped) < trailer_start + 3 THEN pending
      ELSE IF ~Matches(capped, trailer_start - 1, <<separator>> \o CHECKSUM_TAG)
        THEN NoEnd
      ELSE ChecksumEnd(bytes, capped, trailer_start + 3, separator, at_end)

EndByTag(bytes, capped, tag_start, separator, at_end) ==
  IF ~Matches(capped, tag_start, BODY_LENGTH_TAG) THEN NoEnd
  ELSE EndByDigits(bytes, capped, tag_start + 2, RunEnd(capped, tag_start + 2, Digit),
                   separator, at_end)

\* The end BodyLength gives, if it points at a CheckSum field.
by_body_length(bytes, separator, at_end) ==
  LET capped == Capped(bytes, at_end)
  IN  EndByTag(bytes, capped, RunEnd(capped, 0, Byte \ {separator}) + 1, separator, at_end)

\* What stops the walk at a field, from what its search for a start and for a
\* line break found: the start of another message, a line break, the end of
\* the bytes or the CheckSum field.  "Walking" when nothing does.
StopAt(bytes, capped, is_field, field, start, breaks, at_end) ==
  LET is_checksum == is_field /\ field.tag = CHECKSUM
      at_last_byte == ~is_field \/ field.value_end = Len(capped)
  IN  IF start.kind = "Pending" THEN Waiting
      ELSE IF start.kind = "Found" THEN End(start.at, start.at, TRUE)
      ELSE IF breaks # {} THEN at_line_break(capped, Least(breaks), ~is_checksum)
      ELSE IF at_last_byte
        THEN IF CappedFinal(bytes, at_end) THEN End(Len(capped), Len(capped), ~is_checksum)
             ELSE Waiting
      ELSE IF is_checksum THEN after_message(bytes, field.value_end + 1, at_end)
      ELSE [kind |-> "Walking", after |-> field.value_end + 1,
            data_len |-> pending_data_len(capped, field)]

\* The bytes from .. checked_end - 1 are searched, which leaves out a value
\* whose length was stated; a start no further than the line break.
SearchField(bytes, capped, is_field, field, from, checked_end, override, at_end) ==
  LET breaks == Positions(capped, from, checked_end, LF)
      search_end == IF breaks = {} THEN checked_end ELSE Least(breaks)
  IN  StopAt(bytes, capped, is_field, field,
             find_start(bytes, from, search_end, override, at_end), breaks, at_end)

\* A field whose stated length the bytes so far do not reach is waited for.
StopAtField(bytes, capped, is_field, field, pos, data_len, override, at_end) ==
  LET open == /\ is_field /\ data_len # None /\ ~CappedFinal(bytes, at_end)
              /\ field.value_start + data_len >= Len(capped)
      checked_end == IF ~is_field THEN Len(capped)
                     ELSE IF data_len = field.value_end - field.value_start
                       THEN field.value_start
                     ELSE field.value_end
  IN  IF open THEN Waiting
      ELSE SearchField(bytes, capped, is_field, field, IF pos = 0 THEN 1 ELSE pos,
                       checked_end, override, at_end)

\* One turn of walk, at the field that starts at pos.
WalkStop(bytes, pos, data_len, separator, override, at_end) ==
  LET capped == Capped(bytes, at_end)
  IN  StopAtField(bytes, capped, TagEnds(capped, pos, separator) # {},
                  next_field(capped, pos, data_len, separator), pos, data_len,
                  override, at_end)

\* Walks the fields of the message to its CheckSum field: pos and data_len are
\* the variables of the loop.
walk(bytes, separator, override, at_end) ==
  LET from[turn \in [pos : Nat, data_len : Nat \cup {None}]] ==
        LET stop == WalkStop(bytes, turn.pos, turn.data_len, separator, override, at_end)
        IN  IF stop.kind = "Walking"
              THEN from[[pos |-> stop.after, data_len |-> stop.data_len]]
              ELSE stop
  IN  from[[pos |-> 0, data_len |-> None]]

\* Where the message at the start of bytes ends, or Waiting.
find_end(bytes, separator, override, at_end) ==
  LET by_length == by_body_length(bytes, separator, at_end)
  IN  IF by_length.kind = "NotFound"
        THEN walk(bytes, separator, override, at_end)
        ELSE by_length

-----------------------------------------------------------------------------
(* caret_a.rs *)

\* Offsets in line of the "^" of each "^A", which never overlap.
Carets(line) ==
  {i \in 0 .. Len(line) - 2 : At(line, i) = CARET /\ At(line, i + 1) = LETTER_A}

\* The offsets of line that the copy keeps a byte for, in order: all but the
\* "A" of each "^A".
Kept(line) == {i \in 0 .. Len(line) - 1 : i - 1 \notin Carets(line)}

\* The offset in line of the copy's byte at offset.
original_offset(line, offset) ==
  CHOOSE at \in Kept(line) \cup {Len(line)} :
     Cardinality({i \in Kept(line) : i < at}) = offset

\* line with SOH for each "^A".
Restored(line) ==
  LET text[n \in 0 .. Len(line)] ==
        IF n = 0 THEN <<>>
        ELSE IF n - 1 \notin Kept(line) THEN text[n - 1]
        ELSE Append(text[n - 1],
                    IF n - 1 \in Carets(line) THEN SOH ELSE At(line, n - 1))
  IN  text[Len(line)]

\* The message's whole line, and the bytes its record takes with the line
\* break; or Waiting for the line break.
CaretLine(bytes, at_end) ==
  LET capped == Slice(bytes, 0, Lesser(Len(bytes), MAX_MESSAGE_LEN))
      breaks == Positions(capped, 0, Len(capped), LF)
      at == Least(breaks)
  IN  IF breaks # {}
        THEN End(IF at > 0 /\ At(capped, at - 1) = CR THEN at - 1 ELSE at, at + 1, FALSE)
      ELSE IF at_end \/ Len(capped) = MAX_MESSAGE_LEN
        THEN End(Len(capped), Len(capped), FALSE)
      ELSE Waiting

\* The end in the log of a message that ends in the copy at end.
EndInLog(whole, line, copy, end) ==
  LET len == original_offset(line, end.len)
  IN  IF end.kind = "Waiting" THEN Waiting
      ELSE [kind |-> "End", len |-> len, truncated |-> end.truncated,
            consumed |-> IF len = whole.len THEN whole.consumed ELSE len,
            copy |-> Slice(copy, 0, end.len)]

CopiedEnd(whole, line, copy) ==
  EndInLog(whole, line, copy, find_end(copy, SOH, None, TRUE))

CopyLine(whole, line) == CopiedEnd(whole, line, Restored(line))

\* The end, in bytes, of a message logged with "^A", with its restored text.
copy_message(bytes, at_end) ==
  LET whole == CaretLine(bytes, at_end)
  IN  IF whole.kind = "Waiting" THEN Waiting
      ELSE CopyLine(whole, Slice(bytes, 0, whole.len))

-----------------------------------------------------------------------------
(* log.rs *)

LogDiagnostic ==
  {"MissingBodyLength", "MalformedBodyLength", "BodyLengthMismatch",
   "MissingMsgType", "MalformedChecksum", "ChecksumMismatch", "Truncated",
   "PrefixTruncated"}

When(condition, diagnostic) == IF condition THEN <<diagnostic>> ELSE <<>>

\* bytes with SOH for each separator.
WithSOH(bytes, separator) ==
  [i \in 1 .. Len(bytes) |-> IF bytes[i] = separator THEN SOH ELSE bytes[i]]

calculate_checksum(bytes, separator) == Checksum(WithSOH(bytes, separator))

\* What is wrong with the header of a message split into fields.
HeaderDiagnostics(bytes, fields) ==
  LET has_length == Len(fields) >= 2 /\ fields[2].tag = BODY_LENGTH
      type_index == IF has_length THEN 3 ELSE 2
  IN  When(~has_length, "MissingBodyLength")
        \o When(has_length /\ parse_u32(Value(bytes, fields[2])) = None,
                "MalformedBodyLength")
        \o When(~(Len(fields) >= type_index /\ fields[type_index].tag = MSG_TYPE),
                "MissingMsgType")

\* Fault: the checksum is not compared.
TrailerDiagnostics_NoCompare(bytes, fields, separator) ==
  LET count == Len(fields)
      trailer_start == IF count = 1 THEN 0 ELSE fields[count - 1].value_end + 1
      has_length == count >= 2 /\ fields[2].tag = BODY_LENGTH
      declared == parse_u32(Value(bytes, fields[2]))
      stated == Value(bytes, fields[count])
  IN  When(/\ has_length /\ declared # None
           /\ fields[2].value_end + 1 + declared # trailer_start,
           "BodyLengthMismatch")
        \o When(~(Len(stated) = 3 /\ AllDigits(stated)), "MalformedChecksum")

\* What is wrong with the last field, taken for the CheckSum field.
TrailerDiagnostics(bytes, fields, separator) ==
  LET count == Len(fields)
      trailer_start == IF count = 1 THEN 0 ELSE fields[count - 1].value_end + 1
      has_length == count >= 2 /\ fields[2].tag = BODY_LENGTH
      declared == parse_u32(Value(bytes, fields[2]))
      stated == Value(bytes, fields[count])
      is_number == Len(stated) = 3 /\ AllDigits(stated)
  IN  When(/\ has_length /\ declared # None
           /\ fields[2].value_end + 1 + declared # trailer_start,
           "BodyLengthMismatch")
        \o When(~is_number, "MalformedChecksum")
        \o When(/\ is_number
                /\ parse_u32(stated)
                     # calculate_checksum(Slice(bytes, 0, trailer_start), separator),
                "ChecksumMismatch")

diagnose(bytes, fields, separator, truncated) ==
  HeaderDiagnostics(bytes, fields)
    \o When(truncated, "Truncated")
    \o IF truncated \/ fields = <<>> THEN <<>>
       ELSE TrailerDiagnostics(bytes, fields, separator)
=============================================================================
