# refix: TLA+ models, checks and proofs

refix reads FIX messages: it cuts a byte stream into messages, splits a message
into fields and repeating groups, recovers messages from log files, and
generates typed access from a data dictionary. Its core is sequential, but
nearly all of its hard behaviour comes from *when bytes arrive* (a chunk may end
anywhere), from *damaged input* it must resynchronise after, and from *recursion
over structures* (nested groups, components that refer to one another).

The modules here model that core, operation by operation. TLC checks them on
small instances; TLAPS proves the central results for all instances.

## The system

| component | code | state | operations | modules |
|---|---|---|---|---|
| Frame scanner | `refix-message/src/framing.rs` | none | `Scanner::scan` | `Bytes`, `Framing` |
| Message stream | `stream.rs` | the buffer | `feed`, `next_message` | `FrameReader`, `MessageStream` |
| Tokenizer | `tokenizer.rs`, `length_tags.rs` | position, pending length | `tokenize`, `tokenize_fields` | `Tokenizer`, `TokenizeMessage` |
| Log reader | `log.rs`, `log/*.rs` | buffer, how far it was searched, truncation | `feed`, `next_record`, `finish` | `LogText`, `LogReader` |
| Repeating groups | `group.rs`, `message.rs` | the walks in progress | `walk_group`, `get_group` | `GroupWalk` |
| Typed field access | `message.rs`, `multiple_values.rs` | none | the getters, the iterator of multiple values | `GroupWalk` (scopes), `Values`, `TypedAccess` |
| Value conversions | `value/*.rs` | none | `parse`, `new`, comparison, formatting of five types | `Values` |
| Interop conversions | `interop/*.rs`, `refix-engine/src/message.rs` | none | `From`/`TryFrom` each way, for chrono, jiff, time, bigdecimal, rust_decimal and Python | `Interop` |
| Dictionary resolver | `refix-dictionary/src/dictionary/resolver.rs`, `spec.rs` | call stack, memoised expansions | `Spec::resolve` | `Resolver`, `SpecMeaning` |
| QuickFIX parser | `quickfix.rs` | none | `parse` | `QuickFix` |
| Names of the generated code | `refix-codegen/src/namespace.rs`, `naming.rs`, `rust/names.rs`, `python/names.rs` | names taken, per scope | `claim`, `claim_value`, `Names::new` | `Naming`, `Names` |
| Generated code | `refix-codegen/src/rust/*`, `python/*`, `groups.rs`, `conversion.rs`, `envelope.rs` | none | `generate` | `Codegen` |
| Command line | `refix-cli/src/main.rs` | the output files | `codegen` | `Codegen` |
| Python bindings | `python/refix-engine` | the wrapped objects, a reader's `Option`, a suspended generator | the reader's calls, `read_log`, the getters | `PythonLog`, `Interop` |
| Fuzz targets | `fuzz/` | | | not modelled: drivers of what the runs check |

How they interact: `MessageStream` owns a buffer and calls the scanner on it;
`Tokenizer::tokenize` calls the same scanner on one message to accept it; the
log reader calls the tokenizer's `next_field` on text that is no frame yet, to
find where a message ends, and again for its diagnostics; the group walker works
on the fields the tokenizer made. The dictionary resolver is independent of all
of these: it produces what the generators turn into group tables, length tags
and known tags, which the models of tokenizer and groups take as constants. The
QuickFIX parser reads a document into a spec and hands that to the resolver. The
command line reads a document, has it resolved and gives the dictionary to one
generator after the other; a generator first names everything and then emits
code that relies on those names and on what the runtime demands of its tables.
A Python caller reaches the log reader through a wrapper that gives it up at
`finish`.

What makes each of them correct:

* scanner and stream: the messages delivered do not depend on the chunking; no
  byte is lost, repeated or reordered; garbage never stalls the stream; the
  wait for more bytes is bounded;
* tokenizer: fields tile the bytes; a separator is inside a value only where a
  length field announced it; exactly the bytes of one message are accepted;
* log reader: records tile the log in order, whatever the chunking; memory is
  bounded; no start is passed over; no diagnostics means a message;
* groups: instances tile the group, the group is as long as the rules allow,
  reading a nested group later agrees with the walk over it;
* resolver: it ends; it accepts exactly the well-formed specs; a member is
  required if and only if every step on the path to it is;
* QuickFIX parser: every member, code and length link of the document is in the
  spec or warned of, and what it hands on is not refused for what it has checked;
* values: a field is read as what the calendar or the number line says of its
  text and refused otherwise, and keeps its value through another library;
* generated code: no name is defined twice, nothing undefined is referred to,
  the tables are ones the runtime accepts, every tag is read or warned of, and
  every name that departs from the dictionary's is warned of;
* command line: outputs are written in turn, whole or not, and a failure says so;
* Python's log reader: every record once, in order, from whichever call.

## Modules

Byte sequences are sequences of numbers, offsets count from 0 as in the code.
Names of operators are the names of the functions they model where there is one.
An operator preceded by a `Fault:` comment is not part of a model: it is what
the definition after it would be with a plausible bug, kept to show that the
properties notice (see *Faults*).

**`Bytes`, `Framing`** — `scan` is `try_scan` with each function it calls as an
operator of its name and the early returns (`?`) as a chain of results
`Ok`/`Incomplete`/`Garbled`. The second half of `Framing` says, without a
buffer, what a frame and a message at an offset of a stream are (`Preamble`,
`IsFrame`, `IsMessage`, `IsOpenFrame`). BeginString stays its bytes; sorting it
into known versions decides nothing here.

**`MessageStream`** — variables `buf` (the code's only state), what has been fed
and consumed of `stream`, and the outcomes returned. Actions `feed(n)` and
`next_message`, one disjunct per arm. **`FrameReader`** is the abstract
specification: a reader that sees the whole stream and delivers the message at
its place, discards a frame that is no message, or skips to the next possible
beginning. What a frame or a message is it takes as constant operators.
`MessageStream` implements it (`ReaderSpec`) with `Framing`'s for those, and
with what has been fed less what is buffered for the reader's place
(`INSTANCE FrameReader WITH consumed <- fed - Len(buf)`). What `ChunkInvariant`
compares with is `MessagesOf`, a reading of the whole stream that keeps no state.

**`Tokenizer`, `TokenizeMessage`** — `next_field` and `tokenize_fields` as
operators on bytes, then `tokenize` as a machine: `check_frame`, and one
`TakeField` per field carrying the pending data length.

**`LogText`, `LogReader`** — `LogText` has the pure functions of `log/*.rs`: where
a message may start, where it ends, what a `^A` message is copied to, and the
diagnostics; each takes `at_end` as the code does and may answer "wait".
`LogReader` is the reader's state and its three calls; `finish` drains.
**`PythonLog`** composes it with its callers in Python: code that calls `feed`,
`next_record` and `finish` as it likes, and the generator `_drive` behind
`read_log`, suspended at every record. The wrapper's `Option` is empty once the
reader is finished, and `finish` collects before it returns, so that no other
call comes between. Every step of the reader there is a step of `LogReader`;
a Rust caller that drains one record at a time sees the states of the
collecting ones.

**`GroupWalk`** — the recursive `walk` as a machine whose `stack` is the call
stack. A field is its tag and what `parse_count` makes of its value. After a
walk ends, any nested group may be read again through an instance's scope, as
callers do. `Tables` is the root table with all that are nested in it, and
`inner` a history: the nested walks a walk has made.

**`Resolver`** — `Spec::resolve`: `new` is the opening checks in their order, then
one frame per active `resolve_members`, one step per member. A resolved list is
flat, in wire order, with depths; the delimiter of a group is the entry after
it. **`SpecMeaning`** defines top-down, without memo, what a spec means and when
it is well-formed. It uses recursive operators, so it is for TLC only.

**`QuickFix`** — `quickfix::parse`, composed with `Resolver`: one action per
section in the order of the code, each a function of the section's nodes that
gives values and warnings or the first error; then `LinkLengthFields`; then the
resolver's own steps, on the spec that was read. The document is the tree the
XML library (external) gives; its names are values without inner structure, and
a number is the number, absent or malformed. A section left out and an empty one
are the same, as they are to the code. The module uses recursive operators.

**`Values`, `Interop`, `TypedAccess`** — `Values` has the parsing functions and
constructors of the value types as operators on bytes, with the limits of their
integers as constants (a nanosecond has three digits in the instance, and an i64
eighteen days of them, so that every boundary lies within TLC's integers; day
counts are exact). `Interop` has every conversion to and from another library's
type; the ranges of those types are external. `TypedAccess` is a caller that reads
a field of a message by a getter, takes the value to a library and back, or
brings a library's value. Its properties compare with reference definitions: a
count of days by months and leap years, cross-multiplied decimals, the order of
dates and times.

**`Naming`, `Names`, `Codegen`** — `Naming` cuts names into words and puts them
together in the case of a language, with its reserved words. `Names` makes the
claims of both generators, scope by scope and in the order of the code, with
what a clash or a rename does. `Codegen` is `refix codegen` from the arguments to
the files, on the dictionary `Resolver` makes of a spec: `MakeClaim` is one claim,
`Emit` gives the items of a generated file in their order (each with the names it
defines, those it refers to and its tables and tags), `Write` may fail and leave
part of a file. Layout, documentation and literals are left out. `Codegen` uses
recursive operators.

**`MC*`** give the constants: sets of streams, logs, messages and specs put
together from pieces chosen to meet every check of the code. Because input is
chosen in `Init` and kept, one run covers the whole set.

## Runs

| run | question | instance |
|---|---|---|
| `message_stream` | chunk invariance, no byte lost, bounded wait, implements `FrameReader` | 63 streams of two or three pieces, every chunking, polls at any time |
| `message_stream_live` | every message fed is delivered, if the caller polls | 16 of those streams |
| `tokenize` | tiling, data lengths, acceptance, round trip | all inputs over a small alphabet, whole messages, damaged frames |
| `log_reader` | chunk invariance, tiling, bounded buffer, starts, diagnostics; what Python is given | logs of all three separators and a long one, and shorter ones with the separator given by the caller; every split; both kinds of Python caller |
| `group_walk` | tiling, extent, splitting, nested agreement, round trip | all sequences of up to 4 fields after a count; encoded groups of two levels |
| `resolver` | acceptance, meaning of paths, true errors; resolving ends | 5795 specs |
| `quickfix` | every member, code and length is read or warned of; parser and resolver agree | 895 documents: lists of length and data fields in every section, codes, wrong attributes |
| `values` | dates, timestamps and decimals are what their texts say, and survive other libraries | dates of every kind of year, times about midnight and leap seconds, numbers of up to 4 bytes and about the i64 and i8 limits, values brought from each library |
| `codegen` | distinct names, references, tables, tags, renames, files | dictionaries with groups in messages, components, the header and each other; names that meet in every scope; values spelled alike; Rust, Python or both |
| `log_reader_checksum` | *violated*, see below | logs whose last field announces data over the CheckSum |
| `log_reader_split` | *violated*, see below | a log with a length before a text without `=` |
| `codegen_imports` | *violated*, see below | dictionaries of `codegen` |

Bounds, and why they are enough. Constants of the code that only scale are small
in the instances: `MAX_BEGIN_STRING_LEN`, `MAX_BODY_LENGTH_DIGITS`,
`max_frame_size`, `MAX_MESSAGE_LEN`, `MAX_PREFIX_LEN`, `MAX_TAG_DIGITS`, the u32
and i64 maxima. Each is set so that inputs lie on both sides of it. Feeding in
every possible chunk makes every position of every input a chunk boundary;
longer inputs repeat the same local situations. `CHECK_DEADLOCK FALSE` is given
where the program really stops: a tokenized message, a finished log, a read
group, a resolved spec, a value taken through its conversions, a command that has
ended. A message stream never stops: `next_message` answers
`Incomplete` for ever.

### What the violated runs show

* `log_reader_checksum`: `log.rs:201` says "A message that isn't truncated ends
  with its CheckSum field." A message ended by its BodyLength need not.
* `log_reader_split`: `log.rs:864` says "Feeding a log in two pieces, split at
  every byte, reads the same records as feeding it whole." `walk` waits for data
  that may run past the bytes so far only when `next_field` gives a field
  (`end.rs:117`). A text without `=` whose length the field before it states gives
  none until its separator has come, and until then a line feed in it ends the
  message; read at once, the length covers it.
* `codegen_imports`: `conversion.rs:101` says `reads` tells "Whether an accessor
  generated from `dictionary` reads a `wanted` field". It does not look into a
  group without generated types, in which a component may declare one that has
  them: its class is emitted with accessors whose types nothing imports.

`ChunkInvariant` and `GivenInOrder` of `log_reader` are about every other log
(`DependsOnSplit`). They except one more kind, whose last byte is a `\r`: `cap`
(`end.rs:187`) takes it for a line break cut short, but only in `finish`. Where the
message reaches its cap at that byte, or a data value of stated length ends there,
the reader decides with it before `finish` and without it in `finish`
(`LastBreakLogs` has both).

## Fairness

`MessageStream!FairSpec` assumes only that the caller goes on calling
`next_message`; nothing obliges the peer to send. `Resolver!FairSpec` assumes
that the function runs: it waits for nothing. That draining the log reader ends
follows from `RecordsTileTheLog` instead: records do not overlap and each holds
bytes of the finite log.

## Proofs

The theorems hold for every value of the constants that satisfies the named
ASSUMEs of the modules (`FramingAssumption`, `StreamAssumption` and so on), which
TLC evaluates on every instance. Those say what the code's types and its own
constants say: sequences of bytes, caps that are natural numbers, room for a
BodyLength digit and for the start of a message below `MAX_MESSAGE_LEN`, tables
whose nested tables are tables. `RangeAssumption` is what `UtcTimestamp::date`
expects ("an i64 of nanoseconds spans only years 1677 to 2262").

`BytesLemmas` and `TokenizerLemmas` say what the operators of `Bytes` and
`Tokenizer` return, and are cited by the others.

**Scanner and stream** (`FramingProofs`, `MessageStreamProofs`)

* `ScanIsRight`: what `scan` says of a buffer is true of every stream the buffer
  is the beginning of what is left of. One lemma per function of the code says
  what it returns; the theorem puts them together.
* `TypeCorrect`, and `NoByteLost`: `Spec => []BufferIsUnread`. The two are
  inductive together: a feed appends the bytes after `fed`, and a scan's length
  lies within the buffer, so that splitting it off moves `consumed` by as much.
  That the length does is the part that needs lemmas about `scan`.
* `WaitIsBounded`: `Spec => []BoundedWait`, from `ScanIsRight`.
* `ChunkingIsInvisible`: `Spec => []ChunkInvariant`. The reading of the whole
  stream is a recursive function of the place in it. The invariant `CInv` adds
  `ReadSoFar`: the messages of the stream are those delivered, which end before
  the place the reader is at, and those read from there on. A frame taken moves
  one of the second to the first; a skip passes only over places where no
  message begins, by `ScanIsRight`; a wait and a feed change neither.
* `Implements`: `Spec => ReaderSpec`. A step of `next_message` is a step of the
  reader by `ScanIsRight` on the buffer, which is the unread part of the stream
  by `BufferIsUnread`; a feed moves `fed` and the end of the buffer by the same
  amount (`FeedInv`), so that under the mapping it stutters.

**Tokenizer** (`TokenizeMessageProofs`)

* `AcceptsMessages`: `Spec => []AcceptsExactlyOneMessage`. `ScanOfOneMessage`
  applies `ScanIsRight` to bytes that are a stream of their own: `scan` answers a
  frame of their whole length exactly of one message. The invariant also needs
  that such bytes end in a separator (`CheckInv`), so that no field of an
  accepted message runs off its end.
* `FieldsTileTheBytes`, `OnlyDataHoldsSeparators`: from `LoopInv`, in which each
  field is right by itself (`FieldOK`), the position is past the last of them,
  and the pending length is what that one states.

**Groups** (`GroupWalkProofs`)

* `GroupsAreTiled`, `GroupsAreMaximal`, `InstancesRepeatNoTag`,
  `CleanGroupsAreSplit`, for tables nested to any depth. What the properties say
  of a walk that has ended, `Sound`, is kept for each walk on the stack up to the
  slot it has reached (`FrameInv`): a walk that has called another has reached
  the count field of that one. An instance still open is what a walk in progress
  has over an ended one: `seen` holds exactly its own tags. A return gives the
  caller the fields of the nested walk as not its own, which is why its `inner`
  walks are in the state.

**Log reader** (`LogReaderProofs`)

* `BufferIsBounded`: `Spec => []BoundedBuffer`, and `RecordsTile`:
  `Spec => []RecordsTileTheLog`. Every function under `read` may answer that it
  waits; a lemma for each says what it can return and below how many bytes it
  may wait (`CheckCases`, `EndAtCap`, `WalkCases`, `CopyCases`, ...), up to
  `ReadCases` for the whole of `read`. `IInv` ties the buffer to the log between
  what was dropped and what was fed, and the records to the log one after the
  other; bytes are missing between the last record and the buffer only if
  `prefix_truncated` says so, and then the prefix in the buffer is full
  (`CapArithmetic`: the part kept of it is the part that would be kept of all of
  it). That the copy of a `^A` message ends where the original does
  (`OriginalOffset`) is what lets the next read go on at the right byte.
* `NoStartIsPassedOver`: `Spec => []NoStartPassedOver`. What `check` decides of a
  candidate stays decided when more bytes come (`CheckStable`), so a candidate in
  the buffer is what it is in the whole log (`BufferShows`), the byte before it
  included: where the front of the buffer is cut, at least one searched byte is
  kept. `StartsInv` says that no message starts between the last record and
  `searched`, and that each record was the first start after the one before it; in
  the end `searched` is the end of the log.
* `SplittingChangesNothing`: `Spec => []ChunkInvariant`, what the tests assert of
  some splits of some logs, for every log, every chunking and every place where
  `next_record` is called. `SplitInv` says that what was read, followed by what
  reading the rest of the log at once returns, is what reading the log at once
  returns, or the log holds a message of the kinds of `DependsOnSplit`. Only as a
  statement about the rest is it inductive: the prefix of `records` alone says
  nothing of what comes next. Three things are needed for it.
  * What a function decides of the bytes fed so far, it decides of all of the log:
    `ByBodyLengthSame`, `WalkSame`, `CopySame` and, over them, `MessageEndSame`.
    `walk` is the hard one: each turn looks at a field that more bytes may make
    longer, or into another (`TurnSame`, by the cases `TextTurn`, `SeparatorTurn`,
    `EqualsTurn`, `LastByteTurn`), and a turn may go on where the other run waits.
    Each kind of `DependsOnSplit` is ruled out where a case would fail: the CR that
    fills a message in `CutExists`, the length up to one in `LengthAtBreak`, the
    length of a text in `TextChecked`.
  * A prefix that was capped while waiting, and capped again later, is the prefix
    capped once (`CapTwice`), and the search that goes on behind it finds what one
    from the beginning does (`SearchResumes`, `ReadResumes`).
  * The recursion of `RecordsOf` is well-founded, so that its equation holds
    (`ChainExists`, `RecordsFromIs`): each record leaves fewer bytes.
* `PythonReadsTheLog`: `PythonSpec => Spec`, so that the above holds behind the
  Python wrapper, whose runs these are.
* `PythonGivesInOrder`: `PythonSpec => []GivenInOrder`. `GivenInv` says where a
  caller may hold records that it has not handed over: in `finish`, and while the
  generator yields what `finish` returned. What was handed over is always the
  beginning of the records read (`GivenNext`), and those are the records of the
  log by `SplittingChangesNothing`.

**Values** (`TypedAccessProofs`)

* `DatesAreDays`: `Spec => []DatesCountTheDays`. `days_since_epoch` is the count of
  days before the March that begins a year, plus the day in that year
  (`DayCount`); the corrections of `from_days_since_epoch` by 1460, 36524 and
  146096 days leave the year (`YearOfDay`), and its division by 153 the month
  (`MonthOfDay`). So it gives back every date of every year (`DaysGiveTheDate`),
  and the day after a date is one more (`NextDayIsNext`).
* `TimestampsAreKept`: `Spec => []TimestampsKeepDateAndTime`, for nanoseconds of
  any number of digits. Dividing by the nanoseconds of a day separates what
  `parse` put together (`PartsOfStamp`); the days of an i64 all have a date
  (`DaysHaveADate`), and dates are ordered as their days are (`DaysOrderDates`), so
  that what is refused is before the first or after the last.
  The invariant is `ReadFirst`: what the getter returned stays at the head of the
  chain, and the message and scope it read stay as they are.
* `ConversionsKeep`: `Spec => []ConversionsKeepTheValue`, for every text, every
  value of the libraries and every width of the integers. `ChainOfConversions`
  says that a chain begins with a value that was read or brought and that each
  step is a conversion of the one before. A value that is read is of one of five
  kinds with its fields in range (`GetIsRead`): a timestamp's nanoseconds are an
  i64's because the day and the rest of it are compared with those of the limits
  (`FitsIs`), a decimal's digits because `checked_number` never passes `I64_MAX`
  (`CheckedNumber`). For each kind there is a lemma that says what it is converted
  to (`DateInto`, `TimeInto`, `ChronoFrom`, ...), and the kinds are closed under
  conversion (`Converts`), so that nothing panics; put one after the other they
  give the value back (`ReadComesBack`, `BroughtComesBack`). Python has every day
  an i64 of nanoseconds falls on because the first is long after year 0
  (`NotYearZero`). What is assumed is `TypedAccessAssumption`: fields are of bytes,
  and what callers bring is a value its library has (`IsLibraryValue`).

Left to TLC:

* liveness (`AllDelivered`, `Terminates`);
* what only an induction over data gives: that what was encoded is read back
  (`RoundTrip` of tokenizer and groups), that decimals are what their digits say
  (`DecimalsAreNumbers`);
* everything about the resolver, the QuickFIX parser and the generated code, which
  are defined with recursive operators;
* `NestedReadsAgree` of the groups and `CleanRecordsAreMessages` of the log reader,
  which are not proved yet.

The `TypeOK` of a module tells the reader what its state holds; of the type
invariants only `MessageStream`'s is in a run, and those of the stream, the
tokenizer, the groups and the log reader are proved.

## Faults

For every property of a passing run one definition of the model has a faulty
form next to it: a resync that drops a partial prefix, a buffer cleared instead
of split, a length waited for before it is capped, a length that outlives its
field, half a line break taken, a candidate passed over, a list of
seen tags not reset, a component expanded inside itself, codes compared by
spelling, groups skipped when lengths are linked, a generator that forgets
`finish`, days counted from January, a leap second that keeps its date, a name
not claimed, a class before the ones it needs, a rename without its warning, a
command that goes on after an error. TLC finds the property violated with that form in place.

## Abstractions

* `usize` is taken to be 64 bits wide: ten digits of BodyLength never overflow.
* u32 and i64 limits are constants.
* Error texts are left out; errors keep their kind and what they name. Outside
  `Naming` names are values without inner structure.
* `read_log` refuses a separator that is not one byte before it reads; callers
  here give one byte or none. `decode_log` maps a function over its records.
* Memory layout (`Bytes`, borrowed slices, `Arc`) is left out: a slice is its
  contents, a scope its first and last slot.
* In the resolver and the parser data types are `Int`, `Length`, `Data` and others, which is all
  it tells apart.

## Not modelled

* The text of generated code: layout, documentation, literals, and the spelling
  of a word letter by letter. What the code defines and refers to is modelled.
* The wrappers of the Python bindings that hand a call on and change nothing
  (`stream.rs`, `tokenizer.rs`, `dialect.rs`), and `decode_log`.
* Reading XML (an external library), reading arguments and printing warnings.
* The fuzz targets: `chunking_equivalence`, `scan_invariants` and
  `tokenize_tiling` sample what `message_stream` and `tokenize` check in full on
  their instances.
* A leap second in chrono's `DateTime<Utc>`: `timestamp_nanos_opt` counts it as the
  first second of the next minute, and the model's timestamps are such counts.
* The warnings of a document that is refused: `parse` returns the error alone, and
  `MembersOrWarnings` is about the documents it reads.
* Dictionaries without messages in `TablesHold`: their header and trailer are
  never compared, and tags in both would repeat in the envelope's known tags.

## Plan

1. *Done:* framing and stream with their proofs and the refinement of
   `FrameReader`; tokenizer, log reader and its Python callers, groups, values and
   interop, resolver, QuickFIX parser, generated names and code, command line.
2. *Proofs done:* the scanner and the stream with chunk invariance; the
   tokenizer; the groups; the log reader's bound, tiling, search and chunk
   invariance, and what its Python callers are given; dates, timestamps and
   conversions.
3. *Proofs next:* `NestedReadsAgree`;
   `CleanRecordsAreMessages`, from `AcceptsExactlyOneMessage` of a record's text.
4. *Models that could follow:* the tables of `Codegen` given to `GroupWalk`, so
   that what is generated is walked; `decode_log` with a codec that fails.
