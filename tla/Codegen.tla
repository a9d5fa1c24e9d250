------------------------------- MODULE Codegen -------------------------------
(***************************************************************************)
(* refix codegen (refix-cli/src/main.rs): a dictionary is read and         *)
(* resolved, and for each language asked for, in turn, the generator names *)
(* everything, emits the code and writes it to its file.                   *)
(*                                                                         *)
(* A dictionary is given as the spec quickfix::parse makes of its document *)
(* (module QuickFix), and code as what it defines and refers to, in the    *)
(* order of the file, its layout left out.                                 *)
(***************************************************************************)
EXTENDS Names

LOCAL INSTANCE SequencesExt

VARIABLES
  outputs,    \* the languages asked for, which do not change
  written,    \* how many of them have been generated and written
  generated,  \* what the generator returned last, or None
  files,      \* what each language's file holds
  exit        \* <<"running">>, or how the command ends

cli == <<outputs, written, generated, files, exit>>
resolution == <<spec, turn, frames, expansions, sections, error>>

Languages == {"Rust", "Python"}

-----------------------------------------------------------------------------
(* Accessors (rust/messages.rs, python/messages.rs)                        *)

Getter ==
  [Str |-> "get_str", Int |-> "get_int", Bool |-> "get_bool", Decimal |-> "get_decimal",
   Date |-> "get_date", MonthYear |-> "get_month_year", Time |-> "get_time",
   UtcTimestamp |-> "get_utc_timestamp", StrEnum |-> "get_str", IntEnum |-> "get_int",
   MultipleValues |-> "get_multiple_values", MultipleStr |-> "get_multiple_values",
   Bytes |-> "get", Raw |-> "get"]

\* The names an accessor is written with, besides those of its enum.
RustTypes(conversion) ==
  CASE conversion \in {"MultipleValues", "MultipleStr"} -> {"MultipleValues"}
    [] conversion \in {"Decimal", "Date", "MonthYear", "Time", "UtcTimestamp"} -> {conversion}
    [] OTHER -> {}
PythonTypes(conversion) ==
  CASE is_enum(conversion) -> {"Unrecognized", "from_value"}
    [] conversion \in {"Decimal", "MonthYear"} -> {conversion}
    [] conversion = "Date" -> {"date"}
    [] conversion = "Time" -> {"time"}
    [] conversion = "UtcTimestamp" -> {"datetime"}
    [] OTHER -> {}

Reader(name, tag, getter, uses) ==
  [name |-> name, tag |-> tag, getter |-> getter, uses |-> uses]

EnumType(field) ==
  IF is_enum(Conversion(field)) THEN {NameGiven(<<"Enum", field.tag>>)} ELSE {}

emit_accessor(field) ==
  <<Reader(NameGiven(<<"Field", field.tag>>), field.tag, Getter[Conversion(field)],
           RustTypes(Conversion(field)) \cup EnumType(field))>>

emit_property(field) ==
  <<Reader(NameGiven(<<"Field", field.tag>>), field.tag, Getter[Conversion(field)],
           PythonTypes(Conversion(field)) \cup EnumType(field))>>
    \o IF Conversion(field) \in DOMAIN nanos_getter
         THEN <<Reader(NameGiven(<<"Nanos", field.tag>>), field.tag,
                       nanos_getter[Conversion(field)], {})>>
         ELSE <<>>

FieldReaders(field) == IF language = "Rust" THEN emit_accessor(field) ELSE emit_property(field)

-----------------------------------------------------------------------------
(* Groups (rust/groups.rs, python/groups.rs)                               *)

SectionType(call) == IF call = Header THEN "Header" ELSE "Trailer"
SectionMember(call) == IF call = Header THEN "header" ELSE "trailer"

\* Where a group's type is found from the root of the code.
GroupName(group) == NameGiven(IF language = "Rust" THEN GroupOwner(group) ELSE ClassOwner(group))
Enclosing(call) ==
  CASE call[1] = "Component" -> <<>>
    [] call[1] = "Message" ->
         <<IF language = "Rust" THEN NameGiven(<<"Module", call[2]>>) ELSE MessageName(call[2])>>
    [] OTHER -> <<IF language = "Rust" THEN SectionMember(call) ELSE SectionType(call)>>
group_path(group) == Append(Enclosing(declared_in(group)[1]), GroupName(group))

\* A nested group's table is referred to, or written out in place for a group
\* without a type.
RECURSIVE emit_table(_)
table_reference(group) ==
  IF is_generated(group) THEN [path |-> group_path(group)] ELSE emit_table(group)
emit_table(group) ==
  [count_tag |-> count_tag(group), delimiter |-> delimiter(group),
   members |-> member_tags(group),
   nested |-> LET inner == MemberGroups(InstanceMembers(group))
              IN  [k \in 1 .. Len(inner) |-> table_reference(inner[k])]]

\* The accessor of a group's instances, and what it walks them with.
emit_group_accessor(group, known) ==
  [name |-> NameGiven(GroupOwner(group)), path |-> group_path(group), known |-> known]

\* What reads the members of a list: those of fields and those of groups.
Readers(list) ==
  ForEach(SelectSeq(Members(list), LAMBDA i : ~list[i].is_group),
          LAMBDA i : FieldReaders(FieldOf(list[i].tag)))
GroupReaders(list, known) ==
  LET groups == SelectSeq(MemberGroups(list), is_generated)
  IN  [k \in 1 .. Len(groups) |-> emit_group_accessor(groups[k], known)]

emit_group(group) ==
  LET list == InstanceMembers(group)
  IN  [kind |-> "group", path |-> group_path(group), context |-> instance_context(group),
       table |-> emit_table(group), known_tags |-> known_tags(list),
       readers |-> Readers(list), groups |-> GroupReaders(list, group_path(group))]

EmitGroups(groups) == [k \in 1 .. Len(groups) |-> emit_group(groups[k])]

\* Fault: Python's classes in the order of Rust's modules.
collect_groups_OuterFirst == declared_groups

\* Rust goes through a group before those in it, Python after them.
collect_groups ==
  IF language = "Rust" THEN declared_groups
  ELSE LET list == AllMembers(InOrder)
           at == SelectSeq(Places(list), LAMBDA i : list[i].is_group)
           end == [i \in ToSet(at) |-> i + Len(GroupAt(list, i))]
           Before(i, j) == end[i] < end[j] \/ (end[i] = end[j] /\ i > j)
           first == SelectSeq(at, LAMBDA i : \A j \in ToSet(at) :
                      j < i => instance_context(GroupAt(list, j))
                                 # instance_context(GroupAt(list, i)))
           inner_first == SortSeq(first, Before)
       IN  [k \in 1 .. Len(inner_first) |-> GroupAt(list, inner_first[k])]

shared_groups == SelectSeq(collect_groups, is_shared)

\* A warning for each group that gets no type.
UnsupportedGroups ==
  ForEach(SelectSeq(collect_groups, LAMBDA g : ~is_generated(g)),
          LAMBDA g : <<[kind |-> "UnsupportedGroup", context |-> instance_context(g)]>>)

-----------------------------------------------------------------------------
(* conversion.rs                                                           *)

\* Fault: fields in groups are not looked at.
IsReached_TopLevel(list, i) == ~list[i].is_group /\ list[i].depth = 0

\* An accessor reaches the field at i: the groups around it are generated.
IsReached(list, i) ==
  /\ ~list[i].is_group
  /\ \A j \in 1 .. i - 1 :
       list[j].is_group /\ i < j + Len(GroupAt(list, j)) => is_generated(GroupAt(list, j))

\* The fields that an accessor reads.
FieldsRead ==
  UNION {{FieldOf(sections[call][i].tag) :
            i \in {k \in 1 .. Len(sections[call]) : IsReached(sections[call], k)}} :
         call \in ToSet(InOrder)}
ConversionsRead == {Conversion(field) : field \in FieldsRead}

unclaimed_types ==
  LET raw == SelectSeq(spec.fields, LAMBDA f : Conversion(f) = "Raw" /\ f \in FieldsRead)
  IN  [k \in 1 .. Len(raw) |-> [kind |-> "UnclaimedType", field |-> raw[k].name]]

-----------------------------------------------------------------------------
(* Enums, views, messages and dispatch                                     *)

emit_enum(field) ==
  [kind |-> "enum", name |-> NameGiven(<<"Enum", field.tag>>), tag |-> field.tag,
   codes |-> [k \in 1 .. Len(field.codes) |->
                canonical_code(field.data_type, field.codes[k])],
   members |-> [k \in 1 .. Len(field.codes) |-> NameGiven(<<"Value", field.tag, k>>)]]

EnvelopeSections == SelectSeq(Sections, LAMBDA call : sections[call] # <<>>)

\* A view that walks groups knows the envelope's tags, or is given a message's.
emit_view(call) ==
  LET list == sections[call]
  IN  EmitGroups(OwnGroups(call))
        \o <<[kind |-> "view", name |-> SectionType(call),
              known_tags |-> IF HasGroups(list) THEN envelope_tags ELSE <<>>,
              readers |-> Readers(list), groups |-> GroupReaders(list, <<"Given">>)]>>

\* A message reaches the views there are, and gives its known tags to those
\* that walk groups.
emit_view_accessor(call) ==
  [name |-> SectionMember(call), type |-> SectionType(call),
   known |-> HasGroups(sections[call])]

emit_message(m) ==
  LET list == sections[Message(m)]
  IN  EmitGroups(OwnGroups(Message(m)))
        \o <<[kind |-> "message", name |-> MessageName(m),
              msg_type |-> spec.messages[m].msg_type,
              known_tags |-> message_known_tags(Message(m)),
              views |-> [k \in 1 .. Len(EnvelopeSections) |->
                           emit_view_accessor(EnvelopeSections[k])],
              readers |-> Readers(list), groups |-> GroupReaders(list, <<MessageName(m)>>)]>>

emit_dispatch ==
  [m \in 1 .. Len(spec.messages) |->
     [msg_type |-> spec.messages[m].msg_type, name |-> MessageName(m)]]

\* dialect.rs
length_tags ==
  LET linked == SelectSeq(spec.fields, LAMBDA f : f.length_tag # None)
  IN  Sorted([k \in 1 .. Len(linked) |-> linked[k].length_tag])

-----------------------------------------------------------------------------
(* rust.rs and python.rs                                                   *)

If(condition, names) == IF condition THEN names ELSE {}

AnyGroup == \E call \in ToSet(InOrder) : HasGroups(sections[call])
Reads(conversions) == ConversionsRead \cap conversions # {}
HasMessages == spec.messages # <<>>
HasClasses == HasMessages \/ EnvelopeSections # <<>>

RustImports ==
  {"Dialect", "InvalidValue", "KnownTags", "RawMessage", "Tag"}
    \cup If(AnyGroup, {"GroupTable", "Instances"})
    \cup UNION {RustTypes(c) : c \in ConversionsRead}

emit_imports ==
  {"Dialect"}
    \cup If(EnumFields # <<>>, {"enum"})
    \cup If(Reads({"Date"}), {"date"}) \cup If(Reads({"UtcTimestamp"}), {"datetime"})
    \cup If(Reads({"Time"}), {"time"}) \cup If(Reads({"Decimal"}), {"Decimal"})
    \cup If(\E call \in ToSet(InOrder) : sections[call] # <<>>, {"cached_property"})
    \cup If(HasClasses, {"annotations", "ClassVar", "KnownTags", "RawMessage"})
    \cup If(HasMessages, {"Codec"})
    \cup If(AnyGroup, {"GroupTable", "refix"})
    \cup If(Reads({"MonthYear"}), {"MonthYear"})
    \cup If(\E c \in ConversionsRead : is_enum(c), {"Unrecognized", "from_value"})

\* The code of a language: its parts in the order of the file.
Emitted ==
  [language |-> language,
   imports |-> IF language = "Rust" THEN RustImports ELSE emit_imports,
   length_tags |-> length_tags,
   items |-> ForEach(EnumFields, LAMBDA f : <<emit_enum(f)>>)
               \o EmitGroups(shared_groups)
               \o ForEach(EnvelopeSections, emit_view)
               \o ForEach([m \in 1 .. Len(spec.messages) |-> m], emit_message),
   dispatch |-> emit_dispatch]

-----------------------------------------------------------------------------
(* The command                                                             *)

Nothing == <<>>
Old == [language |-> "before"]
Partial == [language |-> "partial"]

CliInit ==
  /\ Init
  /\ language = "none" /\ agenda = <<>> /\ taken = {} /\ warnings = <<>>
  /\ outputs \in {<<"Rust">>, <<"Python">>, <<"Rust", "Python">>}
  /\ written = 0 /\ generated = Nothing
  /\ files = [l \in Languages |-> Old]
  /\ exit = <<"running">>

Ends(with) ==
  exit' = with /\ UNCHANGED <<resolution, naming, outputs, written, generated, files>>

CannotRead == turn = 0 /\ Ends(<<"cannot read">>)

\* quickfix::parse, and what comes of a document it refuses.
Parse == language = "none" /\ Next /\ UNCHANGED <<naming, cli>>
CannotParse == error # <<>> /\ Ends(<<"cannot parse">>)

IsParsed == error = <<>> /\ turn > LastTurn

\* generate begins with Names::new.
BeginGenerate ==
  /\ IsParsed /\ language = "none" /\ written < Len(outputs)
  /\ language' = outputs[written + 1]
  /\ agenda' = ClaimsOf(outputs[written + 1])
  /\ taken' = {} /\ warnings' = <<>> /\ generated' = Nothing
  /\ UNCHANGED <<resolution, outputs, written, files, exit>>

\* The next claim takes a name, or generate fails.
MakeClaim ==
  /\ agenda # <<>>
  /\ \E claim \in {Head(agenda)} : \E outcome \in {Settled(claim)} :
       \/ ClaimError(claim, outcome) # <<>> /\ Ends(ClaimError(claim, outcome))
       \/ /\ ClaimError(claim, outcome) = <<>>
          /\ taken' = taken \cup {[scope |-> claim.scope, name |-> outcome.name,
                                   owner |-> claim.owner]}
          /\ warnings' = warnings \o RenameWarning(claim, outcome)
          /\ agenda' = Tail(agenda)
          /\ UNCHANGED <<resolution, language, cli>>

Emit ==
  /\ language # "none" /\ agenda = <<>> /\ generated = Nothing
  /\ generated' = Emitted
  /\ warnings' = warnings \o UnsupportedGroups \o unclaimed_types
  /\ UNCHANGED <<resolution, language, agenda, taken, outputs, written, files, exit>>

\* Fault: the next output is written though one was not.
CannotWrite_GoesOn ==
  /\ generated # Nothing
  /\ \E left \in {files[language], Partial} : files' = [files EXCEPT ![language] = left]
  /\ language' = "none" /\ written' = written + 1 /\ generated' = Nothing
  /\ UNCHANGED <<resolution, agenda, taken, warnings, outputs, exit>>

\* fs::write fails before or after it has emptied the file.
CannotWrite ==
  /\ generated # Nothing
  /\ \E left \in {files[language], Partial} : files' = [files EXCEPT ![language] = left]
  /\ exit' = <<"cannot write">>
  /\ UNCHANGED <<resolution, naming, outputs, written, generated>>

Write ==
  /\ generated # Nothing
  /\ files' = [files EXCEPT ![language] = generated]
  /\ language' = "none" /\ written' = written + 1 /\ generated' = Nothing
  /\ UNCHANGED <<resolution, agenda, taken, warnings, outputs, exit>>

Succeed == IsParsed /\ language = "none" /\ written = Len(outputs) /\ Ends(<<"success">>)

CliNext ==
  /\ exit = <<"running">>
  /\ \/ CannotRead \/ Parse \/ CannotParse
     \/ BeginGenerate \/ MakeClaim \/ Emit
     \/ CannotWrite \/ Write \/ Succeed

CliSpec == CliInit /\ [][CliNext]_<<resolution, naming, cli>>

-----------------------------------------------------------------------------
(* What is emitted is looked at when it is about to be written.            *)

IsEmitted == generated # Nothing
Items(kind) == SelectSeq(generated.items, LAMBDA item : item.kind = kind)
Each(kind) == ToSet(Items(kind))
Bodies == Each("group") \cup Each("view") \cup Each("message")

\* What the code defines in its root, or relies on there.
Listing(S) == FoldSet(LAMBDA x, list : Append(list, x), <<>>, S)
TypesOf(items) == [i \in 1 .. Len(items) |-> items[i].name]
SharedNames == {item.path[1] : item \in {g \in Each("group") : Len(g.path) = 1}}
\* The Rust modules that hold a message's or a section's own groups.
EnclosingModules ==
  {<<item.context[1], item.path[1]>> : item \in {g \in Each("group") : Len(g.path) = 2}}

RootNames ==
  TypesOf(Items("enum")) \o TypesOf(Items("view")) \o TypesOf(Items("message"))
    \o Listing(SharedNames) \o Listing(generated.imports)
    \o (IF language = "Rust"
          THEN [k \in 1 .. Cardinality(EnclosingModules) |-> Listing(EnclosingModules)[k][2]]
                 \o <<"DIALECT", "From", "Ok", "Option", "Result", "Some", "bool", "i64",
                      "refix_message", "str", "u8">>
          ELSE <<"DIALECT", "bool", "bytes", "dict", "int", "property", "str", "tuple", "type">>)
    \o (IF ~HasMessages THEN <<>>
        ELSE IF language = "Rust" THEN <<"Message">>
        ELSE <<"Message", "_MESSAGES", "from_raw", "CODEC">>)

Own(item) ==
  CASE item.kind = "group" -> IF language = "Rust" THEN <<"raw">>
                              ELSE <<"__init__", "_scope", "raw">>
    [] language = "Rust" /\ item.kind = "view" -> <<"raw">>
    [] language = "Rust" -> <<"KNOWN_TAGS", "MSG_TYPE", "from_raw", "raw">>
    [] item.kind = "view" -> <<"KNOWN_TAGS", "__init__", "_known_tags", "_raw", "raw">>
    [] OTHER -> <<"KNOWN_TAGS", "MSG_TYPE", "__init__", "_raw", "raw">>

NestedClasses(item) ==
  IF language = "Rust" \/ item.kind = "group" THEN <<>>
  ELSE Listing({g.path[2] : g \in {x \in Each("group") : Len(x.path) = 2 /\ x.path[1] = item.name}})

BodyNames(item) ==
  Own(item) \o TypesOf(item.readers) \o TypesOf(item.groups) \o NestedClasses(item)
    \o (IF item.kind = "message" THEN TypesOf(item.views) ELSE <<>>)
    \o (IF language = "Rust" THEN <<>> ELSE <<"property", "cached_property">>)

EnumNames(item) ==
  IF language = "Rust" THEN Append(item.members, "Unrecognized") ELSE item.members

\* No two things in a scope of the code have one name, and none has that of
\* something the code imports or relies on there; and no two members of an
\* enum have one code.
NamesAreDistinct ==
  IsEmitted =>
    /\ ~Repeats(RootNames)
    /\ ~Repeats([k \in 1 .. Len(Items("group")) |-> Items("group")[k].path])
    /\ \A item \in Bodies : ~Repeats(BodyNames(item))
    /\ \A item \in Each("enum") : ~Repeats(EnumNames(item)) /\ ~Repeats(item.codes)

\* The tables that a table is made with: those it refers to, by their paths,
\* and those written out in it.
GroupOf(path) == CHOOSE item \in Each("group") : item.path = path
IsReference(nested) == DOMAIN nested = {"path"}

RECURSIVE PathsIn(_), InlineIn(_), TagsOf(_)
PathsIn(table) ==
  UNION {IF IsReference(nested) THEN {nested.path} ELSE PathsIn(nested) :
         nested \in ToSet(table.nested)}
InlineIn(table) ==
  UNION {IF IsReference(nested) THEN {} ELSE {nested} \cup InlineIn(nested) :
         nested \in ToSet(table.nested)}
TagsOf(table) ==
  ToSet(table.members)
    \cup UNION {TagsOf(IF IsReference(nested) THEN GroupOf(nested.path).table ELSE nested) :
                nested \in ToSet(table.nested)}

\* The groups whose instances the accessors of messages and views lead to.
PathsRead(items) == UNION {{g.path : g \in ToSet(item.groups)} : item \in items}
RECURSIVE Reachable(_)
Reachable(items) ==
  LET more == items \cup {g \in Each("group") : g.path \in PathsRead(items)}
  IN  IF more = items THEN items ELSE Reachable(more)
BodiesReached == Reachable(Each("view") \cup Each("message"))

Before(items, i) == IF language = "Rust" THEN items ELSE SubSeq(items, 1, i - 1)
Paths(items) == {item.path : item \in {x \in ToSet(items) : x.kind = "group"}}
NamesFor(item) == UNION {reader.uses : reader \in ToSet(item.readers)}
EnumNamed == ToSet(TypesOf(Items("enum")))

\* Every type, module and table that the code refers to is there, and in a
\* Python file it is there before the class whose table is made of it; what
\* an accessor that can be reached is written with is imported.
ReferencesResolve ==
  IsEmitted =>
    /\ \A i \in 1 .. Len(generated.items) :
         generated.items[i].kind = "group" =>
           PathsIn(generated.items[i].table) \subseteq Paths(Before(generated.items, i))
    /\ PathsRead(Bodies) \subseteq Paths(generated.items)
    /\ \A item \in BodiesReached : NamesFor(item) \subseteq generated.imports \cup EnumNamed
    /\ \A item \in Each("message") : \A view \in ToSet(item.views) :
         \E section \in Each("view") :
           view.type = section.name /\ (view.known <=> section.known_tags # <<>>)

\* What every accessor of the code is written with is imported.
ImportsCoverAccessors ==
  IsEmitted => \A item \in Bodies : NamesFor(item) \subseteq generated.imports \cup EnumNamed

\* GroupTable::new and KnownTags::new accept what the code makes them of: in
\* Rust they are evaluated when it is compiled, in Python when it is imported.
is_sorted_set(tags) == \A i \in 1 .. Len(tags) - 1 : tags[i] < tags[i + 1]

\* GroupTable::new and OwnedGroupTable::new: the error there is, if any.
GroupTableError(table) ==
  LET CountOf(nested) ==
        IF IsReference(nested) THEN GroupOf(nested.path).table.count_tag ELSE nested.count_tag
  IN  IF ~is_sorted_set(table.members) THEN "UnsortedMembers"
      ELSE IF table.delimiter \notin ToSet(table.members) THEN "DelimiterNotMember"
      ELSE IF \E nested \in ToSet(table.nested) : CountOf(nested) \notin ToSet(table.members)
        THEN "NestedCountNotMember"
      ELSE "none"

TablesHold ==
  IsEmitted /\ HasMessages =>
    /\ \A item \in Each("group") : \A table \in {item.table} \cup InlineIn(item.table) :
         GroupTableError(table) = "none"
    /\ \A item \in Bodies : is_sorted_set(item.known_tags)

\* A tag a message, view or instance knows is read by an accessor of it, or is
\* in the table of a group it reads, whose own tags are read or reported in
\* turn; each group without a type and each field read raw is warned of once.
TagsRead(item) ==
  {reader.tag : reader \in ToSet(item.readers)}
    \cup {GroupOf(g.path).table.count_tag : g \in ToSet(item.groups)}
InGroups(item) == UNION {TagsOf(GroupOf(g.path).table) : g \in ToSet(item.groups)}
EnvelopeTags == UNION {TagsRead(view) \cup InGroups(view) : view \in Each("view")}
Warned(kind) == SelectSeq(warnings, LAMBDA w : w.kind = kind)
Inlined(item) == {table.count_tag : table \in {t \in ToSet(item.table.nested) : ~IsReference(t)}}
RawRead ==
  {f \in ToSet(spec.fields) : Conversion(f) = "Raw"
     /\ \E item \in BodiesReached : f.tag \in TagsRead(item)}

EveryTagIsReadOrReported ==
  IsEmitted =>
    /\ \A item \in Each("message") :
         ToSet(item.known_tags) = EnvelopeTags \cup TagsRead(item) \cup InGroups(item)
    /\ \A item \in Each("view") :
         item.known_tags # <<>> => ToSet(item.known_tags) = EnvelopeTags
    /\ \A item \in Each("group") :
         /\ ToSet(item.known_tags) = TagsOf(item.table)
         /\ ToSet(item.table.members) = TagsRead(item) \cup Inlined(item)
         /\ \A tag \in Inlined(item) :
              Len(SelectSeq(Warned("UnsupportedGroup"), LAMBDA w :
                    w.context = Append(item.context, <<"Group", tag>>))) = 1
    /\ Len(Warned("UnclaimedType")) = Cardinality(RawRead)
    /\ {w.field : w \in ToSet(Warned("UnclaimedType"))} = {f.name : f \in RawRead}

\* A name that is not the one its field or value is spelled with was given
\* with one warning, which tells who had that name; and no other warning is.
Departures ==
  {<<field.tag, NameGiven(<<"Enum", field.tag>>)>> :
     field \in {f \in ToSet(EnumFields) : NameGiven(<<"Enum", f.tag>>) # f.name}}
Spelling(description) ==
  IF language = "Rust" THEN variant_name(description) ELSE member_name(description)
ValueDepartures ==
  UNION {{<<item.tag, k, item.members[k]>> :
            k \in {j \in 1 .. Len(item.members) :
                     item.members[j] # Spelling(FieldOf(item.tag).descriptions[j])}} :
         item \in Each("enum")}

RenamesAreWarned ==
  IsEmitted =>
    /\ Len(Warned("Renamed")) = Cardinality(Departures) + Cardinality(ValueDepartures)
    /\ \A d \in Departures : \E w \in ToSet(Warned("Renamed")) :
         w.second = <<"Enum", d[1]>> /\ w.name = d[2] /\ w.first[1] # "Value"
    /\ \A d \in ValueDepartures : \E w \in ToSet(Warned("Renamed")) :
         /\ w.second = <<"Value", d[1], d[2]>> /\ w.name = d[3]
         /\ \E j \in 1 .. d[2] - 1 : w.first = <<"Value", d[1], j>>

\* The outputs are written in turn: those before the one at work are whole,
\* those after it and those not asked for are as they were, and a file is left
\* half written only when writing it is what failed.
FilesAreWrittenInTurn ==
  /\ \A k \in 1 .. Len(outputs) :
       /\ k <= written => files[outputs[k]].language = outputs[k]
       /\ k = written + 1 => files[outputs[k]] \in {Old} \cup (IF exit = <<"cannot write">> THEN {Partial} ELSE {})
       /\ k > written + 1 => files[outputs[k]] = Old
  /\ \A l \in Languages \ ToSet(outputs) : files[l] = Old
  /\ exit = <<"success">> => written = Len(outputs)
=============================================================================
