------------------------------ MODULE LogReader ------------------------------
(***************************************************************************)
(* LogReader (log.rs): a log arrives in chunks of any size, the caller     *)
(* takes records off the front of the buffer whenever it likes, and        *)
(* finish ends the input and drains what is left.                          *)
(*                                                                         *)
(* The log, and the separator if the caller gives one, are fixed when a    *)
(* behaviour starts; fed counts the bytes of the log given to feed.        *)
(* dropped and records are history.                                        *)
(***************************************************************************)
EXTENDS LogText

CONSTANTS
  Logs,            \* the logs a caller may read, with the separator it gives
  Chunks,          \* the lengths of the chunks it may feed
  MAX_PREFIX_LEN   \* longest prefix kept, nearest its message

ASSUME LogReaderAssumption ==
  /\ Logs \subseteq [text : Seq(Byte), separator : Byte \cup {None}]
  /\ Chunks \subseteq Nat \ {0}
  /\ MAX_PREFIX_LEN \in Nat \ {0}

VARIABLES
  log,               \* every byte of the log
  given_separator,   \* LogReader.separator: a byte, or None to detect it
  fed,               \* how many of them have been fed
  buf,               \* LogReader.buf
  searched,          \* LogReader.searched
  prefix_truncated,  \* LogReader.prefix_truncated
  finished,          \* finish has been called
  returned,          \* what the last read returned
  dropped,           \* bytes of the log that have left the front of buf
  records            \* the records returned so far

vars == <<log, given_separator, fed, buf, searched, prefix_truncated, finished,
          returned, dropped, records>>

-----------------------------------------------------------------------------
(* LogReader::read, as a function of the reader's fields. *)

\* A reader; dropped is the offset in the log of its buffer.
Reader(b, s, t, d, o) ==
  [buf |-> b, searched |-> s, prefix_truncated |-> t, dropped |-> d,
   override |-> o]

\* Fault: the search resumes after a candidate that waits for bytes.
PrefixLen_PastCandidate(bytes, start) ==
  IF start.kind = "Found" THEN start.at ELSE Len(bytes)

\* What read finds when it looks for a start: the bytes before it, or before
\* the candidate, or all of them.
PrefixLen(bytes, start) == IF start.kind = "NotFound" THEN Len(bytes) ELSE start.at

\* cap_prefix: how many of the oldest prefix bytes go.
Excess(prefix_len) ==
  IF prefix_len <= MAX_PREFIX_LEN THEN 0 ELSE prefix_len - MAX_PREFIX_LEN

\* The message at the front of bytes, which started with that separator.
MessageEnd(bytes, separator, override, at_end) ==
  IF separator = CaretA
    THEN copy_message(bytes, at_end)
    ELSE find_end(bytes, separator, override, at_end)

MessageText(bytes, separator, end) ==
  IF separator = CaretA THEN end.copy ELSE Slice(bytes, 0, end.len)

\* A LogRecord.  Beside its fields: where its message is in the log, as it was
\* logged, where the bytes its record takes end, and its separator.
Record(prefix, message, diagnostics, at, len, consumed, separator) ==
  [prefix |-> prefix, message |-> message, diagnostics |-> diagnostics,
   from |-> at, to |-> at + len, end |-> at + consumed, separator |-> separator]

\* The reader once the prefix it holds is capped: all but prefix_len's excess
\* stays, and the next search starts behind the prefix.
CapPrefix(reader, prefix_len) ==
  LET excess == Excess(prefix_len)
  IN  Reader(Slice(reader.buf, excess, Len(reader.buf)), prefix_len - excess,
             reader.prefix_truncated \/ excess > 0, reader.dropped + excess,
             reader.override)

\* The reader after the message that ends at end behind the prefix, and its
\* record.
TakeRecord(reader, message, separator, end) ==
  LET consumed == reader.searched + end.consumed
  IN  [reader |-> Reader(Slice(reader.buf, consumed, Len(reader.buf)), 0, FALSE,
                         reader.dropped + consumed, reader.override),
       record |-> <<Record(Slice(reader.buf, 0, reader.searched), message,
                           When(reader.prefix_truncated, "PrefixTruncated")
                             \o diagnose(message, tokenize_fields(message, separator),
                                         separator, end.truncated),
                           reader.dropped + reader.searched, end.len, end.consumed,
                           separator)>>]

TakeOrWait(reader, separator, rest, end) ==
  IF end.kind = "Waiting" THEN [reader |-> reader, record |-> <<>>]
  ELSE TakeRecord(reader, MessageText(rest, separator, end),
                  IF separator = CaretA THEN SOH ELSE separator, end)

ReadMessage(reader, separator, rest, at_end) ==
  TakeOrWait(reader, separator, rest,
             MessageEnd(rest, separator, reader.override, at_end))

ReadFrom(reader, start, at_end) ==
  IF start.kind # "Found" THEN [reader |-> reader, record |-> <<>>]
  ELSE ReadMessage(reader, start.separator,
                   Slice(reader.buf, reader.searched, Len(reader.buf)), at_end)

\* The prefix ends where the search does: at a start, at what may be one, or
\* at the end of the buffer.
ReadPrefix(reader, start, at_end) ==
  ReadFrom(CapPrefix(reader, PrefixLen(reader.buf, start)), start, at_end)

\* What read(at_end) does to a reader: the reader after it, and the record it
\* returned, if any.
read(reader, at_end) ==
  ReadPrefix(reader,
             find_start(reader.buf, reader.searched, Len(reader.buf), reader.override,
                        at_end),
             at_end)

-----------------------------------------------------------------------------
Init ==
  /\ \E l \in Logs : log = l.text /\ given_separator = l.separator
  /\ fed = 0
  /\ buf = <<>>
  /\ searched = 0
  /\ prefix_truncated = FALSE
  /\ finished = FALSE
  /\ returned = "nothing"
  /\ dropped = 0
  /\ records = <<>>

\* LogReader::feed with the next n bytes of the log, or what is left.
feed(n) ==
  LET upto == Lesser(fed + n, Len(log))
  IN  /\ ~finished
      /\ fed < Len(log)
      /\ fed' = upto
      /\ buf' = buf \o Slice(log, fed, upto)
      /\ returned' = "nothing"
      /\ UNCHANGED <<log, given_separator, searched, prefix_truncated, finished, dropped,
                     records>>

\* The state after read(at_end), which came to result.
ReadTo(result) ==
  /\ buf' = result.reader.buf
  /\ searched' = result.reader.searched
  /\ prefix_truncated' = result.reader.prefix_truncated
  /\ dropped' = result.reader.dropped
  /\ records' = records \o result.record
  /\ returned' = IF result.record = <<>> THEN "None" ELSE "Record"
  /\ UNCHANGED <<log, given_separator, fed, finished>>

Read(at_end) ==
  \E result \in {read(Reader(buf, searched, prefix_truncated, dropped, given_separator),
                         at_end)} :
     ReadTo(result)

next_record == ~finished /\ Read(FALSE)

\* finish takes the reader: nothing is fed after it, so the log is what has
\* been fed.
finish ==
  /\ ~finished
  /\ fed = Len(log)
  /\ finished' = TRUE
  /\ returned' = "nothing"
  /\ UNCHANGED <<log, given_separator, fed, buf, searched, prefix_truncated, dropped,
                 records>>

\* One turn of the iterator finish returned, until it returns None.
drain == finished /\ returned # "None" /\ Read(TRUE)

Next == (\E n \in Chunks : feed(n)) \/ next_record \/ finish \/ drain

Spec == Init /\ [][Next]_vars

Drained == finished /\ returned = "None"

-----------------------------------------------------------------------------
TypeOK ==
  /\ [text |-> log, separator |-> given_separator] \in Logs
  /\ fed \in 0 .. Len(log)
  /\ buf \in Seq(Byte)
  /\ searched \in 0 .. Len(buf)
  /\ prefix_truncated \in BOOLEAN
  /\ finished \in BOOLEAN
  /\ returned \in {"nothing", "None", "Record"}
  /\ dropped \in 0 .. fed
  /\ records \in Seq([prefix : Seq(Byte), message : Seq(Byte),
                      diagnostics : Seq(LogDiagnostic), from : Nat, to : Nat,
                      end : Nat, separator : Byte])

\* The records of a whole log fed at once and then finished.
RecordsOf(l) ==
  LET Readers == [buf : Seq(Byte), searched : Nat, prefix_truncated : BOOLEAN,
                  dropped : Nat, override : {l.separator}]
      from[reader \in Readers] ==
        LET result == read(reader, TRUE)
        IN  IF result.record = <<>> THEN <<>>
            ELSE result.record \o from[result.reader]
  IN  from[Reader(l.text, 0, FALSE, 0, l.separator)]

AtOnce == [l \in Logs |-> RecordsOf(l)]

RecordsAtOnce == AtOnce[[text |-> log, separator |-> given_separator]]

IsPrefixOf(s, t) == Len(s) <= Len(t) /\ \A i \in 1 .. Len(s) : s[i] = t[i]

\* Splitting the log anywhere reads the same records: however it is chunked
\* and whenever next_record is called, a record is never decided before the
\* bytes that decide it have come, and prefix, message and diagnostics are
\* those of the log read at once.
SplittingReadsTheSame(all) ==
  /\ IsPrefixOf(records, all)
  /\ Drained => records = all

\* The logs it does not hold of: what is read of a message, which bytes begin
\* with and separator splits, depends on where they are cut.  Its last byte is a
\* CR, which only finish takes for a cut line break, and the last that it can
\* hold; or a field states the length of a value that ends at that CR; or that
\* of a text without "=", whose line breaks end the message as long as nothing
\* is fed that shows where the text ends.
StatesLength(bytes, separator, p, n) ==
  \E x \in 0 .. p - 1 : \E y \in x .. p - 2 :
     /\ parse_u32(Slice(bytes, x, y)) \in LengthTags /\ At(bytes, y) = EQUALS
     /\ parse_u32(Slice(bytes, y + 1, p - 1)) = n /\ At(bytes, p - 1) = separator

NoDelimiter(bytes, separator, p, q) ==
  \A i \in p .. q - 1 : At(bytes, i) \notin {EQUALS, separator}

LengthOfText(bytes, separator) ==
  \E q \in 0 .. Lesser(Len(bytes), MAX_MESSAGE_LEN) - 1 : \E p \in 0 .. q :
     /\ StatesLength(bytes, separator, p, q - p)
     /\ NoDelimiter(bytes, separator, p, q) /\ At(bytes, q) = separator
     /\ \E i \in p .. q - 1 : At(bytes, i) = LF

LengthUpToBreak(bytes, separator) ==
  \E v \in 1 .. Len(bytes) - 1 : \E p \in 0 .. v - 1 :
     /\ StatesLength(bytes, separator, p, Len(bytes) - 1 - v)
     /\ NoDelimiter(bytes, separator, p, v - 1) /\ At(bytes, v - 1) = EQUALS

DependsOnSplit(bytes, separator) ==
  \/ /\ At(bytes, Len(bytes) - 1) = CR
     /\ Len(bytes) = MAX_MESSAGE_LEN \/ LengthUpToBreak(bytes, separator)
  \/ LengthOfText(bytes, separator)

SplitMatters(all) ==
  \E i \in 1 .. Len(all) :
     DependsOnSplit(Slice(log, all[i].from, Len(log)), all[i].separator)

\* Splitting any other log anywhere reads the same records.
ChunkInvariant ==
  \E all \in {RecordsAtOnce} : SplittingReadsTheSame(all) \/ SplitMatters(all)

\* "Feeding a log in two pieces, split at every byte, reads the same records as
\* feeding it whole." (splitting_the_log_anywhere_reads_the_same_records)
AnySplitReadsTheSame == \E all \in {RecordsAtOnce} : SplittingReadsTheSame(all)

\* No byte of the log is lost between records.  The prefix of each is what
\* lies between the record before it and its message, or the end of that with
\* PrefixTruncated to say so; only a line break goes after the message; and
\* the message is the logged text, with SOH for each "^A" if that ends its
\* fields.  A record takes bytes, so the iterator of finish comes to an end.
EndBefore(i) == IF i = 1 THEN 0 ELSE records[i - 1].end
GapBefore(i) == Slice(log, EndBefore(i), records[i].from)

Reports(record, diagnostic) ==
  \E i \in 1 .. Len(record.diagnostics) : record.diagnostics[i] = diagnostic

RecordsTileTheLog ==
  \A i \in 1 .. Len(records) :
     LET r == records[i]
         gap == GapBefore(i)
         logged == Slice(log, r.from, r.to)
     IN  /\ EndBefore(i) <= r.from /\ r.from < r.to
         /\ r.prefix = Slice(gap, Excess(Len(gap)), Len(gap))
         /\ Reports(r, "PrefixTruncated") <=> Len(gap) > MAX_PREFIX_LEN
         /\ r.message \in {logged, Restored(logged)}
         /\ Slice(log, r.to, r.end) \in {<<>>, <<LF>>, <<CR, LF>>}

\* No message start is passed over: each record's message is the first start
\* after the record before it, and after the last record there is none.  The
\* reader looks only from searched on, in a buffer it has cut at the front; the
\* search here is of everything after the record before.
StartAfter(i) ==
  LET from == IF i = 0 THEN 0 ELSE records[i].end
      rest == Slice(log, from, Len(log))
      start == find_start(rest, 0, Len(rest), given_separator, TRUE)
  IN  IF start.kind = "Found" THEN from + start.at ELSE None

NoStartPassedOver ==
  Drained =>
    \A i \in 0 .. Len(records) :
       StartAfter(i) = IF i < Len(records) THEN records[i + 1].from ELSE None

\* A reader that returned None holds a capped prefix, a capped message and
\* the bytes that decide what follows it, and no more, whatever the log holds.
BoundedBuffer ==
  returned = "None" =>
    Len(buf) <= MAX_PREFIX_LEN + MAX_MESSAGE_LEN
                  + MAX_BEGIN_STRING_LEN + 2 + MAX_TAG_DIGITS

\* A record without diagnostics is a message: with SOH for its separator, and
\* after its CheckSum if the log left that out, the framing scanner takes it.
\* That asks what diagnose does not check, because it reads tags and BodyLength
\* as numbers: that they are written the way the scanner reads them.
AsFrame(record) ==
  LET text == WithSOH(record.message, record.separator)
  IN  IF At(text, Len(text) - 1) = SOH THEN text ELSE Append(text, SOH)

IsWholeMessage(s) ==
  \E q \in BeginStringEnds(0) : \E r \in BodyLengthEnds(q) :
     IsMessage(s, 0, q, r) /\ FrameEnd(s, q, r) = Len(s)

Fields(record) == tokenize_fields(record.message, record.separator)

Plain(record) ==
  /\ \A i \in 1 .. Len(record.message) - 1 :
        record.message[i] = record.separator => record.message[i + 1] # 48
  /\ Len(Value(record.message, Fields(record)[2])) <= MAX_BODY_LENGTH_DIGITS
  /\ Len(AsFrame(record)) <= max_frame_size

CleanRecordsAreMessages ==
  \A i \in 1 .. Len(records) :
     records[i].diagnostics \in {<<>>, <<"PrefixTruncated">>} /\ Plain(records[i]) =>
       IsWholeMessage(AsFrame(records[i]))

\* "A message that isn't truncated ends with its CheckSum field." (diagnose)
EndsWithCheckSum ==
  \A i \in 1 .. Len(records) :
     \/ Reports(records[i], "Truncated")
     \/ Fields(records[i])[Len(Fields(records[i]))].tag = CHECKSUM

=============================================================================
