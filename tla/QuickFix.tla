------------------------------- MODULE QuickFix -------------------------------
(***************************************************************************)
(* quickfix::parse (quickfix.rs): an XML data dictionary becomes a Spec,   *)
(* section by section, and the Resolver resolves it.  The first error ends *)
(* the parse; what is left out without one is warned of.                   *)
(*                                                                         *)
(* A document is the tree the XML library reads, external to the code: a   *)
(* section it leaves out is an empty one, and an attribute of a number is  *)
(* the number, Absent or Malformed.                                        *)
(***************************************************************************)
EXTENDS SpecMeaning

LOCAL INSTANCE SequencesExt

CONSTANTS
  Documents,   \* the documents that are parsed
  U8_MAX,      \* the greatest number of a version
  U32_MAX      \* and of a tag

ASSUME QuickFixAssumption == U8_MAX \in Nat /\ U32_MAX \in Nat \ {0}

VARIABLES
  document,   \* the document, which does not change
  stage,      \* what parse does next
  warnings,   \* the warnings so far
  outcome     \* <<>>, or what parse returns: <<"Parsed">> or an error

parser == <<document, stage, warnings, outcome>>
resolver == <<turn, frames, expansions, sections, error>>

-----------------------------------------------------------------------------
(* Results: the values of some nodes and their warnings, or the first      *)
(* error.                                                                  *)

Values(values) == [values |-> values, warnings |-> <<>>, error |-> <<>>]
Warns(warning) == [values |-> <<>>, warnings |-> <<warning>>, error |-> <<>>]
Fails(e) == [values |-> <<>>, warnings |-> <<>>, error |-> e]

And(first, next) ==
  [values |-> first.values \o next.values,
   warnings |-> first.warnings \o next.warnings, error |-> next.error]

AndThen(first, next) == IF first.error # <<>> THEN first ELSE And(first, next)

Each(Parse(_), nodes) ==
  FoldLeft(LAMBDA so_far, node : AndThen(so_far, Parse(node)), Values(<<>>), nodes)

\* One value made of those of a result.
Wrapped(result, value) ==
  IF result.error # <<>> THEN result ELSE [result EXCEPT !.values = <<value>>]

-----------------------------------------------------------------------------
(* Attributes                                                              *)

Absent == "absent"
Nothing == ""
NoNumber == -1
Malformed == -2

MissingAttribute(attribute) == <<"MissingAttribute", attribute>>
InvalidAttribute(attribute) == <<"InvalidAttribute", attribute>>

\* int_attribute: the error there is with a number of at most max, if any.
IntError(number, max, attribute) ==
  IF number = NoNumber THEN MissingAttribute(attribute)
  ELSE IF number \notin 0 .. max THEN <<"InvalidNumber", attribute>>
  ELSE <<>>

VersionError(version) ==
  IF version.type \notin {"FIX", "FIXT", Absent} THEN <<"UnknownProtocol", version.type>>
  ELSE IF IntError(version.major, U8_MAX, "major") # <<>>
    THEN IntError(version.major, U8_MAX, "major")
  ELSE IF IntError(version.minor, U8_MAX, "minor") # <<>>
    THEN IntError(version.minor, U8_MAX, "minor")
  ELSE IF version.servicepack = NoNumber THEN <<>>
  ELSE IntError(version.servicepack, U8_MAX, "servicepack")

Version(version) ==
  [protocol |-> IF version.type = "FIXT" THEN "FIXT" ELSE "FIX",
   major |-> version.major, minor |-> version.minor,
   service_pack |-> IF version.servicepack = NoNumber THEN 0 ELSE version.servicepack]

-----------------------------------------------------------------------------
(* Fields                                                                  *)

\* The types that behave alike here share one.
parse_data_type(name) ==
  CASE name \in {"INT", "NUMINGROUP", "SEQNUM", "TAGNUM", "DAYOFMONTH"} -> "Int"
    [] name = "LENGTH" -> "Length"
    [] name \in {"DATA", "XMLDATA"} -> "Data"
    [] OTHER -> "String"

\* Fault: codes repeat when they are spelled alike.
FirstOfCode_Spelled(type, codes, i) == Least({j \in 1 .. i : codes[j] = codes[i]})

\* Where the code at i, or one that means the same, is first listed.
FirstOfCode(type, codes, i) ==
  Least({j \in 1 .. i : canonical_code(type, codes[j]) = canonical_code(type, codes[i])})

Indices(s) == [i \in 1 .. Len(s) |-> i]

RepeatedCode(field, kept, dropped) ==
  [kind |-> "RepeatedCode", field |-> field, kept |-> kept, dropped |-> dropped]

\* The codes that are kept, and a warning for each of the rest.
drop_repeated_codes(field, type, codes) ==
  LET kept == SelectSeq(Indices(codes), LAMBDA i : FirstOfCode(type, codes, i) = i)
      dropped == SelectSeq(Indices(codes), LAMBDA i : FirstOfCode(type, codes, i) # i)
  IN  [values |-> [k \in 1 .. Len(kept) |-> codes[kept[k]]],
       warnings |-> [k \in 1 .. Len(dropped) |->
         RepeatedCode(field, codes[FirstOfCode(type, codes, dropped[k])],
                      codes[dropped[k]])],
       error |-> <<>>]

\* A spec's field, with its name.
NamedField(name, tag, type, length_tag, codes) ==
  [name |-> name, tag |-> tag, data_type |-> type, length_tag |-> length_tag,
   codes |-> codes]

FieldWith(node, type, kept) ==
  Wrapped(kept, NamedField(node.name, node.number, type, None, kept.values))

parse_field(node) ==
  IF node.name = Absent THEN Fails(MissingAttribute("name"))
  ELSE IF \E i \in 1 .. Len(node.values) : node.values[i].missing # Nothing
    THEN Fails(MissingAttribute(node.values[Least(
           {i \in 1 .. Len(node.values) : node.values[i].missing # Nothing})].missing))
  ELSE IF IntError(node.number, U32_MAX, "number") # <<>>
    THEN Fails(IntError(node.number, U32_MAX, "number"))
  ELSE IF node.type = Absent THEN Fails(MissingAttribute("type"))
  ELSE FieldWith(node, parse_data_type(node.type),
         drop_repeated_codes(node.name, parse_data_type(node.type),
                             [i \in 1 .. Len(node.values) |-> node.values[i].code]))

DistinctNames(result) ==
  LET again == {j \in 1 .. Len(result.values) :
                  \E i \in 1 .. j - 1 : result.values[i].name = result.values[j].name}
  IN  IF again = {} THEN result
      ELSE Fails(<<"DuplicateField", result.values[Least(again)].name>>)

parse_fields(nodes) == DistinctNames(Each(parse_field, nodes))

\* tags_by_name
Known(name) == \E i \in 1 .. Len(spec.fields) : spec.fields[i].name = name
TagNamed(name) ==
  spec.fields[CHOOSE i \in 1 .. Len(spec.fields) : spec.fields[i].name = name].tag

-----------------------------------------------------------------------------
(* Members.  The context of a list says where it is: what it is the list   *)
(* of, then the groups it is nested in.                                    *)

RequiredError(node) ==
  IF node.required \in {"Y", "N", Absent} THEN <<>> ELSE InvalidAttribute("required")
IsRequired(node) == node.required = "Y"

parse_field_ref(node, context) ==
  IF node.name = Absent THEN Fails(MissingAttribute("name"))
  ELSE IF ~Known(node.name) THEN Fails(<<"UnknownField", node.name, context>>)
  ELSE IF RequiredError(node) # <<>> THEN Fails(RequiredError(node))
  ELSE Values(<<FieldRef(TagNamed(node.name), IsRequired(node))>>)

parse_component_ref(node) ==
  IF node.name = Absent THEN Fails(MissingAttribute("name"))
  ELSE IF RequiredError(node) # <<>> THEN Fails(RequiredError(node))
  ELSE Values(<<ComponentRef(node.name, IsRequired(node))>>)

UnsupportedElement(context, element) ==
  [kind |-> "UnsupportedElement", context |-> context, element |-> element]

\* Fault: the members of a group do not warn.
GroupOf_Quiet(count, members) ==
  IF count.error # <<>> THEN count
  ELSE Wrapped([members EXCEPT !.warnings = <<>>],
               Group(count.values[1].tag, count.values[1].is_required, members.values))

\* A group names its count field as a field reference does.
GroupOf(count, members) ==
  IF count.error # <<>> THEN count
  ELSE Wrapped(members,
               Group(count.values[1].tag, count.values[1].is_required, members.values))

InGroup(context, name) == Append(context, <<"Group", name>>)

\* parse_members, and parse_group within.
RECURSIVE parse_members(_, _)
parse_members(nodes, context) ==
  Each(LAMBDA node :
         CASE node.element = "field" -> parse_field_ref(node, context)
           [] node.element = "component" -> parse_component_ref(node)
           [] node.element = "group" ->
                GroupOf(parse_field_ref(node, context),
                        parse_members(node.children, InGroup(context, node.name)))
           [] OTHER -> Warns(UnsupportedElement(context, node.element)),
       nodes)

parse_component(node) ==
  IF node.name = Absent THEN Fails(MissingAttribute("name"))
  ELSE LET members == parse_members(node.children, <<<<"Component", node.name>>>>)
       IN  Wrapped(members, [name |-> node.name, members |-> members.values])

MessageOf(node, members) ==
  IF members.error # <<>> THEN members
  ELSE IF node.msgtype = Absent THEN Fails(MissingAttribute("msgtype"))
  ELSE Wrapped(members, [name |-> node.name, msg_type |-> node.msgtype,
                         category |-> node.msgcat, members |-> members.values])

parse_message(node) ==
  IF node.name = Absent THEN Fails(MissingAttribute("name"))
  ELSE IF node.msgcat = Absent THEN Fails(MissingAttribute("msgcat"))
  ELSE IF node.msgcat \notin {"admin", "app"} THEN Fails(InvalidAttribute("msgcat"))
  ELSE MessageOf(node, parse_members(node.children, <<<<"Message", node.name>>>>))

-----------------------------------------------------------------------------
(* link_length_fields                                                      *)

\* fields_by_tag: of the fields with one tag, the last.
FieldTagged(tag) ==
  LET places == {i \in 1 .. Len(spec.fields) : TagOf(i) = tag}
  IN  spec.fields[CHOOSE i \in places : \A j \in places : j <= i]

\* Fault: what stands after a LENGTH field is taken for a data field.
IsLengthBefore_AnyField(length, data) ==
  /\ length.kind = "Field" /\ data.kind = "Field"
  /\ FieldTagged(length.tag).data_type = "Length"

\* Two members in a row are a LENGTH field and the data field it is for.
IsLengthBefore(length, data) ==
  /\ length.kind = "Field" /\ data.kind = "Field"
  /\ FieldTagged(length.tag).data_type = "Length"
  /\ has_length_field(FieldTagged(data.tag).data_type)

\* Such pairs of a list, in its order.
OwnPairs(members) ==
  LET places == SelectSeq(Indices(members),
                  LAMBDA i : i < Len(members) /\ IsLengthBefore(members[i], members[i + 1]))
  IN  [k \in 1 .. Len(places) |->
         [length |-> members[places[k]].tag, data |-> members[places[k] + 1].tag]]

\* Fault: groups are not looked into.
collect_length_tags_Shallow(members) == OwnPairs(members)

\* The pairs of a list in the order they are collected: first those of its
\* groups.
RECURSIVE collect_length_tags(_)
collect_length_tags(members) ==
  FoldLeft(LAMBDA pairs, m :
             IF m.kind = "Group" THEN pairs \o collect_length_tags(m.members) ELSE pairs,
           <<>>, members)
    \o OwnPairs(members)

MemberLists ==
  <<spec.header, spec.trailer>>
    \o [i \in 1 .. Len(spec.messages) |-> spec.messages[i].members]
    \o [i \in 1 .. Len(spec.components) |-> spec.components[i].members]

LengthPairs ==
  FoldLeft(LAMBDA pairs, members : pairs \o collect_length_tags(members), <<>>, MemberLists)

\* The pairs that give a data field another length than the first one did.
Conflicts(pairs) ==
  {i \in 1 .. Len(pairs) :
     LET first == Least({j \in 1 .. i : pairs[j].data = pairs[i].data})
     IN  pairs[first].length # pairs[i].length}

LengthOf(pairs, tag) ==
  LET places == {i \in 1 .. Len(pairs) : pairs[i].data = tag}
  IN  IF places = {} THEN None ELSE pairs[Least(places)].length

Linked(pairs) ==
  [i \in 1 .. Len(spec.fields) |->
     [spec.fields[i] EXCEPT !.length_tag = LengthOf(pairs, TagOf(i))]]

-----------------------------------------------------------------------------
EmptySpec ==
  [version |-> <<>>, header |-> <<>>, messages |-> <<>>, trailer |-> <<>>,
   fields |-> <<>>, components |-> <<>>]

ParseInit ==
  /\ document \in Documents
  /\ stage = "version"
  /\ warnings = <<>>
  /\ outcome = <<>>
  /\ spec = EmptySpec
  /\ turn = 0 /\ frames = <<>> /\ expansions = <<>> /\ sections = <<>> /\ error = <<>>

Return(value) ==
  /\ outcome' = value
  /\ UNCHANGED <<document, stage, warnings, spec, resolver>>

\* A part of the spec is read, or the parse fails.
ReadPart(at, next, part, result) ==
  /\ stage = at
  /\ \E read \in {result} :
       \/ read.error # <<>> /\ Return(read.error)
       \/ /\ read.error = <<>>
          /\ spec' = [spec EXCEPT ![part] = read.values]
          /\ warnings' = warnings \o read.warnings
          /\ stage' = next
          /\ UNCHANGED <<document, outcome, resolver>>

RootError ==
  IF document.root # "fix" THEN <<"UnexpectedRoot", document.root>>
  ELSE VersionError(document.version)

ReadVersion ==
  ReadPart("version", "fields", "version",
           IF RootError # <<>> THEN Fails(RootError) ELSE Values(Version(document.version)))

ReadFields == ReadPart("fields", "header", "fields", parse_fields(document.fields))
ReadHeader ==
  ReadPart("header", "components", "header", parse_members(document.header, <<Header>>))
ReadComponents ==
  ReadPart("components", "messages", "components",
           Each(parse_component, document.components))
ReadMessages ==
  ReadPart("messages", "trailer", "messages", Each(parse_message, document.messages))
ReadTrailer ==
  ReadPart("trailer", "lengths", "trailer", parse_members(document.trailer, <<Trailer>>))

\* collect_length_tags stops at the first conflict.
LinkLengthFields ==
  ReadPart("lengths", "resolve", "fields",
    LET pairs == LengthPairs
    IN  IF Conflicts(pairs) = {} THEN Values(Linked(pairs))
        ELSE LET pair == pairs[Least(Conflicts(pairs))]
             IN  Fails(<<"ConflictingLengthFields", pair.data,
                         LengthOf(pairs, pair.data), pair.length>>))

\* Spec::resolve, a step at a time, and what comes of it.
Resolve == stage = "resolve" /\ Next /\ UNCHANGED parser

EndOfParse ==
  /\ stage = "resolve"
  /\ \/ error # <<>> /\ Return(<<"Invalid", error>>)
     \/ error = <<>> /\ turn > LastTurn /\ Return(<<"Parsed">>)

ParseNext ==
  /\ outcome = <<>>
  /\ \/ ReadVersion \/ ReadFields \/ ReadHeader \/ ReadComponents
     \/ ReadMessages \/ ReadTrailer \/ LinkLengthFields
     \/ Resolve \/ EndOfParse

ParseSpec == ParseInit /\ [][ParseNext]_<<parser, spec, resolver>>

-----------------------------------------------------------------------------
Stages ==
  {"version", "fields", "header", "components", "messages", "trailer", "lengths",
   "resolve"}

\* Nothing is resolved before the spec is whole, and every number in the spec
\* is one that its width holds.
ParseTypeOK ==
  /\ stage \in Stages
  /\ stage # "resolve" =>
       turn = 0 /\ frames = <<>> /\ DOMAIN expansions = {} /\ sections = <<>> /\ error = <<>>
  /\ stage # "version" =>
       spec.version.major \in 0 .. U8_MAX /\ spec.version.minor \in 0 .. U8_MAX
  /\ \A i \in 1 .. Len(spec.fields) :
       /\ TagOf(i) \in 0 .. U32_MAX
       /\ spec.fields[i].length_tag \in {None} \cup {TagOf(j) : j \in 1 .. Len(spec.fields)}

\* What the parser has seen to, the resolver does not refuse: the two agree on
\* when codes are the same, every tag a member has is defined, and lengths
\* are linked to data fields from LENGTH fields only.
Forestalled ==
  {"UnknownField", "RepeatedCode", "UnexpectedLengthTag", "UnknownLengthTag",
   "NonLengthField"}

ParserForestalls == error # <<>> => error[1] \notin Forestalled

\* Every code a document lists is kept, or dropped with a warning that names
\* the code kept for the same meaning, which is listed before it; and no two
\* that are kept mean the same.
Meanings(field, codes) == {canonical_code(field.data_type, c) : c \in codes}
Elements(s) == {s[i] : i \in 1 .. Len(s)}
Listed(i) == [k \in 1 .. Len(document.fields[i].values) |-> document.fields[i].values[k].code]
Dropped(field) ==
  SelectSeq(warnings, LAMBDA w : w.kind = "RepeatedCode" /\ w.field = field.name)

CodesKeepTheFirst ==
  stage = "header" => \A i \in 1 .. Len(spec.fields) :
     LET field == spec.fields[i]
         dropped == Dropped(field)
     IN  /\ Len(field.codes) + Len(dropped) = Len(Listed(i))
         /\ Meanings(field, Elements(field.codes)) = Meanings(field, Elements(Listed(i)))
         /\ \A a, b \in 1 .. Len(field.codes) :
              a < b => Meanings(field, {field.codes[a]}) # Meanings(field, {field.codes[b]})
         /\ \A k \in 1 .. Len(dropped) :
              /\ dropped[k].kept \in Elements(field.codes)
              /\ Meanings(field, {dropped[k].kept}) = Meanings(field, {dropped[k].dropped})
              /\ \E a, b \in 1 .. Len(Listed(i)) :
                   a < b /\ Listed(i)[a] = dropped[k].kept /\ Listed(i)[b] = dropped[k].dropped

\* The spec is about to be resolved.
SpecIsRead == stage = "resolve" /\ turn = 0

\* Each data field takes its length from the LENGTH field it is listed after,
\* in whatever list that is, and there is a conflict just when two lists
\* disagree.
PairsListed ==
  UNION {{<<list[i].tag, list[i + 1].tag>> :
            i \in {k \in 1 .. Len(list) - 1 : IsLengthBefore(list[k], list[k + 1])}} :
         list \in UNION {ListsIn(MemberLists[k]) : k \in 1 .. Len(MemberLists)}}
LengthsListed(tag) == {pair[1] : pair \in {p \in PairsListed : p[2] = tag}}

LengthsAreThoseListed ==
  /\ SpecIsRead =>
       \A i \in 1 .. Len(spec.fields) :
          LengthsListed(TagOf(i)) = {spec.fields[i].length_tag} \ {None}
  /\ stage = "lengths" /\ outcome # <<>> =>
       /\ outcome[3] # outcome[4]
       /\ {outcome[3], outcome[4]} \subseteq LengthsListed(outcome[2])

\* Each member of the document is a member of the spec, in its place, and each
\* element that is none is warned of, with the place it is at.
RECURSIVE LeftOut(_, _)
LeftOut(nodes, context) ==
  UNION {CASE nodes[i].element = "group" ->
                LeftOut(nodes[i].children, InGroup(context, nodes[i].name))
           [] nodes[i].element \in {"field", "component"} -> {}
           [] OTHER -> {UnsupportedElement(context, nodes[i].element)} :
         i \in 1 .. Len(nodes)}

RECURSIVE SameShape(_, _)
SameShape(nodes, members) ==
  LET kept == SelectSeq(nodes, LAMBDA n : n.element \in {"field", "component", "group"})
  IN  /\ Len(kept) = Len(members)
      /\ \A i \in 1 .. Len(kept) :
           CASE members[i].kind = "Component" ->
                  kept[i].element = "component" /\ kept[i].name = members[i].name
             [] members[i].kind = "Field" ->
                  kept[i].element = "field" /\ TagNamed(kept[i].name) = members[i].tag
             [] OTHER ->
                  /\ kept[i].element = "group" /\ TagNamed(kept[i].name) = members[i].tag
                  /\ SameShape(kept[i].children, members[i].members)

Unsupported == {w \in Elements(warnings) : w.kind = "UnsupportedElement"}
AllLeftOut ==
  LeftOut(document.header, <<Header>>) \cup LeftOut(document.trailer, <<Trailer>>)
    \cup UNION {LeftOut(c.children, <<<<"Component", c.name>>>>) : c \in Elements(document.components)}
    \cup UNION {LeftOut(m.children, <<<<"Message", m.name>>>>) : m \in Elements(document.messages)}

MembersOrWarnings ==
  SpecIsRead =>
    /\ Unsupported = AllLeftOut
    /\ SameShape(document.header, spec.header) /\ SameShape(document.trailer, spec.trailer)
    /\ \A i \in 1 .. Len(spec.components) :
         SameShape(document.components[i].children, spec.components[i].members)
    /\ \A i \in 1 .. Len(spec.messages) :
         SameShape(document.messages[i].children, spec.messages[i].members)
=============================================================================
