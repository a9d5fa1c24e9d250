-------------------------------- MODULE Naming --------------------------------
(***************************************************************************)
(* How generated code spells what a dictionary names: the case conversions *)
(* of refix-codegen, what a language adds to keep clear of its keywords,   *)
(* and what it refuses to spell.                                           *)
(*                                                                         *)
(* A name is a string of ASCII characters; Unspelled stands for the None   *)
(* or the error of a name that has no spelling.                            *)
(***************************************************************************)
EXTENDS Integers, Sequences, TLC

LOCAL INSTANCE SequencesExt

Unspelled == ""

Chars(name) == [i \in 1 .. Len(name) |-> SubSeq(name, i, i)]
Spelled(chars) == FoldLeft(LAMBDA so_far, c : so_far \o c, "", chars)

Upper == Chars("ABCDEFGHIJKLMNOPQRSTUVWXYZ")
Lower == Chars("abcdefghijklmnopqrstuvwxyz")
Digits == Chars("0123456789")

is_uppercase(c) == c \in ToSet(Upper)
is_lowercase(c) == c \in ToSet(Lower)
is_digit(c) == c \in ToSet(Digits)
Alphanumeric == ToSet(Upper \o Lower \o Digits)

to_lowercase(c) ==
  IF is_uppercase(c) THEN Lower[CHOOSE i \in 1 .. 26 : Upper[i] = c] ELSE c
to_uppercase(c) ==
  IF is_lowercase(c) THEN Upper[CHOOSE i \in 1 .. 26 : Lower[i] = c] ELSE c

Uppercased(name) == Spelled([i \in 1 .. Len(name) |-> to_uppercase(Chars(name)[i])])

-----------------------------------------------------------------------------
(* case_converter.rs                                                       *)

\* What is left of a name from i on opens with the s of a plural.
pluralizes(chars, i) ==
  /\ i <= Len(chars) /\ chars[i] = "s"
  /\ ~(i < Len(chars) /\ is_lowercase(chars[i + 1]))

\* A capital that begins a word.
BeginsWord(chars, i) ==
  /\ i > 1 /\ is_uppercase(chars[i])
  /\ \/ is_lowercase(chars[i - 1]) \/ is_digit(chars[i - 1])
     \/ /\ is_uppercase(chars[i - 1])
        /\ i < Len(chars) /\ is_lowercase(chars[i + 1])
        /\ ~pluralizes(chars, i + 1)

snake_case(name) ==
  LET chars == Chars(name)
  IN  Spelled([i \in 1 .. Len(chars) |->
        (IF BeginsWord(chars, i) THEN "_" ELSE "") \o to_lowercase(chars[i])])

pascal_case(name) ==
  LET chars == Chars(name)
  IN  Spelled([i \in 1 .. Len(chars) |->
        IF chars[i] = "_" THEN ""
        ELSE IF i = 1 \/ chars[i - 1] = "_" THEN to_uppercase(chars[i])
        ELSE to_lowercase(chars[i])])

-----------------------------------------------------------------------------
(* Conversion::of: how generated code reads a field.  The types that are   *)
(* read alike share one.                                                   *)

IntTypes == {"Int", "Length"}

TypeConversion ==
  [String |-> "Str", Multiple |-> "MultipleStr", Int |-> "Int", Length |-> "Int",
   Boolean |-> "Bool", Float |-> "Decimal", Date |-> "Date", MonthYear |-> "MonthYear",
   Time |-> "Time", UtcTimestamp |-> "UtcTimestamp", Data |-> "Bytes", Other |-> "Raw"]

Conversion(field) ==
  IF field.codes # <<>> /\ field.data_type # "Boolean"
    THEN CASE field.data_type = "Multiple" -> "MultipleValues"
           [] field.data_type \in IntTypes -> "IntEnum"
           [] OTHER -> "StrEnum"
    ELSE TypeConversion[field.data_type]

is_enum(conversion) == conversion \in {"StrEnum", "IntEnum", "MultipleValues"}

-----------------------------------------------------------------------------
(* naming.rs                                                               *)

field_base_name(field) ==
  snake_case(field.name) \o (IF Conversion(field) = "Raw" THEN "_raw" ELSE "")

\* The name without a No that is a word of its own.
without_no_prefix(name) ==
  IF Len(name) > 2 /\ SubSeq(name, 1, 2) = "No" /\ is_uppercase(SubSeq(name, 3, 3))
    THEN SubSeq(name, 3, Len(name))
    ELSE name

-----------------------------------------------------------------------------
(* rust/naming.rs                                                          *)

RESERVED_WORDS ==
  {"abstract", "as", "async", "await", "become", "box", "break", "const", "continue", "do",
   "dyn", "else", "enum", "extern", "false", "final", "fn", "for", "gen", "if", "impl", "in",
   "let", "loop", "macro", "match", "mod", "move", "mut", "override", "priv", "pub", "ref",
   "return", "static", "struct", "trait", "true", "try", "type", "typeof", "unsafe",
   "unsized", "use", "virtual", "where", "while", "yield"}

RustIdentifier(name) ==
  CASE name \in {"self", "super", "crate"} -> Unspelled
    [] name \in RESERVED_WORDS -> "r#" \o name
    [] OTHER -> name

method_name(field) == RustIdentifier(field_base_name(field))

\* A name that starts with a letter and has only allowed characters.
Representable(name, allowed) ==
  /\ name # ""
  /\ is_uppercase(Chars(name)[1]) \/ is_lowercase(Chars(name)[1])
  /\ \A i \in 1 .. Len(name) : Chars(name)[i] \in allowed

Prefixed(name, prefix) ==
  IF name # "" /\ is_digit(SubSeq(name, 1, 1)) THEN prefix \o name ELSE name

variant_name(description) ==
  LET name == Prefixed(pascal_case(description), "N")
  IN  IF Representable(name, Alphanumeric) /\ name # "Self" THEN name ELSE Unspelled

numbered_variant(name, number) == name \o ToString(number)

-----------------------------------------------------------------------------
(* python/naming.rs                                                        *)

KEYWORDS ==
  {"and", "as", "assert", "async", "await", "break", "class", "continue", "def", "del",
   "elif", "else", "except", "finally", "for", "from", "global", "if", "import", "in", "is",
   "lambda", "nonlocal", "not", "or", "pass", "raise", "return", "try", "while", "with",
   "yield"}

PythonIdentifier(name) == IF name \in KEYWORDS THEN name \o "_" ELSE name

property_name(field) == PythonIdentifier(field_base_name(field))

\* What a field's nanoseconds are read with, beside its value.
nanos_getter ==
  [conversion \in {"Time", "UtcTimestamp"} |->
     IF conversion = "Time" THEN "get_time_ns" ELSE "get_utc_timestamp_ns"]

nanos_property_name(field) == field_base_name(field) \o "_ns"

TrimUnderscores(name) ==
  LET kept == {i \in 1 .. Len(name) : Chars(name)[i] # "_"}
  IN  IF kept = {} THEN ""
      ELSE SubSeq(name, CHOOSE i \in kept : \A j \in kept : i <= j, Len(name))

WordCharacters == Alphanumeric \cup {"_"}

member_name(description) ==
  LET name == Prefixed(Uppercased(TrimUnderscores(description)), "N_")
  IN  IF Representable(name, WordCharacters) THEN name ELSE Unspelled

numbered_member(name, number) == name \o "_" \o ToString(number)
=============================================================================
