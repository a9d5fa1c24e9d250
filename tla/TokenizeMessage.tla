--------------------------- MODULE TokenizeMessage ---------------------------
(***************************************************************************)
(* Tokenizer::tokenize and the loop of tokenize_fields (tokenizer.rs), a   *)
(* field at a time.  tokenize accepts bytes that are exactly one message   *)
(* and splits them at SOH; the log reader calls tokenize_fields on bytes   *)
(* it has not verified, with the separator of the log.                     *)
(*                                                                         *)
(* tokenize scans with a cap of u32::MAX: here max_frame_size is that cap. *)
(***************************************************************************)
EXTENDS Framing, Tokenizer

CONSTANTS
  Inputs  \* records [entry, bytes, separator, sent]: see InputAssumption

\* sent is the list of <<tag, value>> that bytes encode, or <<>> when bytes
\* are not the encoding of anything.
ASSUME InputAssumption ==
  \A i \in Inputs :
     /\ i.entry \in {"tokenize", "tokenize_fields"}
     /\ i.bytes \in Seq(Byte)
     /\ i.separator \in Byte
     /\ i.entry = "tokenize" => i.separator = SOH

VARIABLES
  input,     \* the call
  status,    \* where the call is, or how it ended
  pos,       \* offset of the next field
  data_len,  \* the length the last field stated, or None
  fields     \* RawMessage.fields so far

vars == <<input, status, pos, data_len, fields>>

bytes == input.bytes
separator == input.separator

TokenizeError == {"Garbled", "Incomplete", "TrailingBytes", "TooLargeToIndex"}

Init ==
  /\ input \in Inputs
  /\ status = IF input.entry = "tokenize" THEN "check_frame" ELSE "fields"
  /\ pos = 0
  /\ data_len = None
  /\ fields = <<>>

\* Fault: what follows the message is not looked at.
FrameCheck_IgnoreRest(scanned) ==
  CASE scanned.kind = "Frame" -> "fields"
    [] scanned.kind = "Incomplete" -> "Incomplete"
    [] scanned.kind = "Garbled" -> IF scanned.reason = "FrameTooLarge"
                                     THEN "TooLargeToIndex" ELSE "Garbled"

\* What check_frame makes of the scan of the bytes.
FrameCheck(scanned) ==
  CASE scanned.kind = "Frame" /\ scanned.len = Len(bytes) -> "fields"
    [] scanned.kind = "Frame" /\ scanned.len # Len(bytes) -> "TrailingBytes"
    [] scanned.kind = "Incomplete" -> "Incomplete"
    [] scanned.kind = "Garbled" -> IF scanned.reason = "FrameTooLarge"
                                     THEN "TooLargeToIndex" ELSE "Garbled"

check_frame ==
  /\ status = "check_frame"
  /\ \E scanned \in {scan(bytes)} : status' = FrameCheck(scanned)
  /\ UNCHANGED <<input, pos, data_len, fields>>

\* Fault: a length stays pending until another replaces it.
TakeField_KeepLength ==
  /\ status = "fields"
  /\ TagEnds(bytes, pos, separator) # {}
  /\ \E field \in {next_field(bytes, pos, data_len, separator)} :
        /\ fields' = Append(fields, field)
        /\ pos' = field.value_end + 1
        /\ data_len' = IF pending_data_len(bytes, field) = None THEN data_len
                       ELSE pending_data_len(bytes, field)
  /\ UNCHANGED <<input, status>>

\* One turn of the loop of tokenize_fields.
TakeField ==
  /\ status = "fields"
  /\ TagEnds(bytes, pos, separator) # {}
  /\ \E field \in {next_field(bytes, pos, data_len, separator)} :
        /\ fields' = Append(fields, field)
        /\ pos' = field.value_end + 1
        /\ data_len' = pending_data_len(bytes, field)
  /\ UNCHANGED <<input, status>>

EndOfFields ==
  /\ status = "fields"
  /\ TagEnds(bytes, pos, separator) = {}
  /\ status' = "done"
  /\ UNCHANGED <<input, pos, data_len, fields>>

Next == check_frame \/ TakeField \/ EndOfFields

Spec == Init /\ [][Next]_vars

-----------------------------------------------------------------------------
TypeOK ==
  /\ bytes \in Seq(Byte) /\ separator \in Byte
  /\ status \in {"check_frame", "fields", "done"} \cup TokenizeError
  /\ pos \in 0 .. Len(bytes) + 1
  /\ data_len \in Nat \cup {None}
  /\ fields \in Seq([tag : Nat, value_start : Nat, value_end : Nat])

\* The fields tile the bytes: they are in order, the text of each runs from
\* just after the separator of the one before, and each but a last one that
\* the bytes cut short is followed by the separator.
Tiling ==
  \A i \in 1 .. Len(fields) :
     LET start == IF i = 1 THEN 0 ELSE fields[i - 1].value_end + 1
         f == fields[i]
     IN  /\ start <= f.value_start /\ f.value_start <= f.value_end
         /\ f.value_end <= Len(bytes)
         /\ f.value_end < Len(bytes) => At(bytes, f.value_end) = separator
         /\ f.value_end = Len(bytes) => i = Len(fields)

\* Only the value of a data field holds a separator, and only one whose
\* length the field before it states: a wrong length never lets a value run
\* over its neighbour, nor does a length outlive the field it is for.
SeparatorsOnlyInData ==
  \A i \in 1 .. Len(fields) :
     Positions(bytes, fields[i].value_start, fields[i].value_end, separator) # {}
       => /\ i > 1
          /\ fields[i - 1].tag \in LengthTags
          /\ parse_u32(Value(bytes, fields[i - 1]))
               = fields[i].value_end - fields[i].value_start

\* A message is accepted when it is all there is, and then every byte of it
\* belongs to a field.
Accepted == input.entry = "tokenize" /\ status \in {"fields", "done"}

IsOneMessage ==
  \E q \in BeginStringEnds(0) : \E r \in BodyLengthEnds(q) :
     IsMessage(bytes, 0, q, r) /\ FrameEnd(bytes, q, r) = Len(bytes)

AcceptsExactlyOneMessage ==
  /\ Accepted => IsOneMessage
  /\ status \in TokenizeError => ~IsOneMessage
  /\ (Accepted /\ status = "done") => pos = Len(bytes)

\* What was encoded is read back, values that hold separators and "=" too.
Decoded ==
  [i \in 1 .. Len(fields) |-> <<fields[i].tag, Value(bytes, fields[i])>>]

RoundTrip ==
  input.sent # <<>> =>
    /\ status \notin TokenizeError
    /\ status = "done" => Decoded = input.sent
=============================================================================
