------------------------------ MODULE Tokenizer ------------------------------
(***************************************************************************)
(* Splitting a message into fields (tokenizer.rs): each field is the       *)
(* extent of its value and its tag.  The value after a length tag is taken *)
(* by the length that tag states, so that it may hold separators.          *)
(***************************************************************************)
EXTENDS Bytes

CONSTANTS
  LengthTags,  \* Tokenizer.length_tags: tags that state a data field's length
  U32_MAX      \* the largest number a tag or a length can be

ASSUME TokenizerAssumption ==
  /\ U32_MAX \in Nat \ {0}
  /\ LengthTags \subseteq 1 .. U32_MAX

None == -1
MALFORMED == 0

Field(tag, value_start, value_end) ==
  [tag |-> tag, value_start |-> value_start, value_end |-> value_end]

parse_u32(digits) ==
  IF Len(digits) = 0 \/ ~AllDigits(digits) \/ Number(digits) > U32_MAX
    THEN None
    ELSE Number(digits)

\* Where the tag that starts at pos may end.
TagEnds(bytes, pos, separator) ==
  {i \in pos .. Len(bytes) - 1 : At(bytes, i) \in {EQUALS, separator}}

\* Fault: a length is trusted wherever it lands.
data_value_end_Trusting(bytes, value_start, len, separator) ==
  IF value_start + len <= Len(bytes) THEN value_start + len ELSE None

\* The end of a value len bytes long, distrusted unless a separator follows.
data_value_end(bytes, value_start, len, separator) ==
  IF value_start + len < Len(bytes) /\ At(bytes, value_start + len) = separator
    THEN value_start + len
    ELSE None

find_separator(bytes, from, separator) ==
  LET found == Positions(bytes, from, Len(bytes), separator)
  IN  IF found = {} THEN None ELSE Least(found)

ValueEnd(bytes, value_start, data_len, separator) ==
  LET by_length == IF data_len = None THEN None
                   ELSE data_value_end(bytes, value_start, data_len, separator)
      by_scan == find_separator(bytes, value_start, separator)
  IN  IF by_length # None THEN by_length
      ELSE IF by_scan # None THEN by_scan
      ELSE Len(bytes)

\* The field that starts at pos, when TagEnds is not empty: one without an
\* "=" before its separator is malformed, and its whole text is the value.
next_field(bytes, pos, data_len, separator) ==
  LET tag_end == Least(TagEnds(bytes, pos, separator))
      number == parse_u32(Slice(bytes, pos, tag_end))
  IN  IF At(bytes, tag_end) = EQUALS
        THEN Field(IF number = None THEN MALFORMED ELSE number, tag_end + 1,
                   ValueEnd(bytes, tag_end + 1, data_len, separator))
        ELSE Field(MALFORMED, pos, tag_end)

Value(bytes, field) == Slice(bytes, field.value_start, field.value_end)

\* Fault: no field states a length.
pending_data_len_Never(bytes, field) == None

\* The length a field states for the value of the next one, if it does.
pending_data_len(bytes, field) ==
  IF field.tag \in LengthTags THEN parse_u32(Value(bytes, field)) ELSE None

\* Every field of bytes.  Text after the last separator that holds no "=" is
\* no field.
tokenize_fields(bytes, separator) ==
  LET from[pos \in Nat, data_len \in Nat \cup {None}] ==
        IF TagEnds(bytes, pos, separator) = {} THEN <<>>
        ELSE LET field == next_field(bytes, pos, data_len, separator)
             IN  <<field>> \o from[field.value_end + 1,
                                   pending_data_len(bytes, field)]
  IN  from[0, None]
=============================================================================
