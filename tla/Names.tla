-------------------------------- MODULE Names --------------------------------
(***************************************************************************)
(* What the code generators read a dictionary as, and the names they give  *)
(* what they generate from it: Names::new of the Rust and of the Python    *)
(* generator (rust/names.rs, python/names.rs) as the claims each makes on  *)
(* the scopes of its output, one claim a step.                             *)
(*                                                                         *)
(* A group is a member list of its own: its count field, then its          *)
(* instance's members one deeper.                                          *)
(***************************************************************************)
EXTENDS Resolver, Naming

LOCAL INSTANCE SequencesExt

VARIABLES
  language,  \* the generator that runs, or "none"
  agenda,    \* the claims it has still to make
  taken,     \* the names taken, each in its scope and by its owner
  warnings   \* the generator's warnings, in order

naming == <<language, agenda, taken, warnings>>

-----------------------------------------------------------------------------
(* A dictionary, resolved (dictionary.rs)                                  *)

\* The positions of a sequence, to select from.
Places(s) == [i \in 1 .. Len(s) |-> i]

\* The group whose count field is at i in a member list.
GroupAt(list, i) ==
  LET inner == {j \in i + 1 .. Len(list) :
                  \A k \in i + 1 .. j : list[k].depth > list[i].depth}
  IN  [k \in 1 .. Cardinality(inner) + 1 |->
         [list[i + k - 1] EXCEPT !.depth = @ - list[i].depth]]

\* Every group in a member list, and those that are members of the list.
GroupsIn(list) ==
  LET at == SelectSeq(Places(list), LAMBDA i : list[i].is_group)
  IN  [k \in 1 .. Len(at) |-> GroupAt(list, at[k])]
MemberGroups(list) ==
  LET at == SelectSeq(Places(list), LAMBDA i : list[i].is_group /\ list[i].depth = 0)
  IN  [k \in 1 .. Len(at) |-> GroupAt(list, at[k])]

Members(list) == SelectSeq(Places(list), LAMBDA i : list[i].depth = 0)

count_tag(group) == group[1].tag
declared_in(group) == group[1].declared_in
InstanceMembers(group) == [i \in 1 .. Len(group) - 1 |-> [group[i + 1] EXCEPT !.depth = @ - 1]]
delimiter(group) == group[2].tag

FieldNamed(i) == spec.fields[i].name
Sections == <<Header, Trailer>>
MessageCalls == [m \in 1 .. Len(spec.messages) |-> Message(m)]

\* The member lists in the order the generators go through them.
InOrder == <<Header>> \o MessageCalls \o <<Trailer>>
AllMembers(calls) == FlattenSeq([k \in 1 .. Len(calls) |-> sections[calls[k]]])

-----------------------------------------------------------------------------
(* groups.rs                                                               *)

is_generated(group) == Len(declared_in(group)) = 1
is_shared(group) == declared_in(group)[1][1] = "Component" /\ is_generated(group)
instance_context(group) == Append(declared_in(group), <<"Group", count_tag(group)>>)

\* The first of the groups of each context.
EachOnce(groups) ==
  LET first == SelectSeq(Places(groups), LAMBDA i : \A j \in 1 .. i - 1 :
                           instance_context(groups[j]) # instance_context(groups[i]))
  IN  [k \in 1 .. Len(first) |-> groups[first[k]]]

declared_groups == EachOnce(GroupsIn(AllMembers(InOrder)))

Sorted(tags) == SortSeq(tags, <)

\* Fault: the count fields of nested groups are left out.
member_tags_FieldsOnly(group) ==
  LET list == InstanceMembers(group)
      own == SelectSeq(Members(list), LAMBDA i : ~list[i].is_group)
  IN  Sorted([k \in 1 .. Len(own) |-> list[own[k]].tag])

member_tags(group) ==
  LET list == InstanceMembers(group)
  IN  Sorted([k \in 1 .. Len(Members(list)) |-> list[Members(list)[k]].tag])

Tags(list) == [i \in 1 .. Len(list) |-> list[i].tag]
known_tags(list) == Sorted(Tags(list))

\* envelope.rs: the tags of the header and the trailer.
envelope_tags == known_tags(sections[Header] \o sections[Trailer])
message_known_tags(call) == Sorted(envelope_tags \o Tags(sections[call]))

HasGroups(list) == MemberGroups(list) # <<>>

-----------------------------------------------------------------------------
(* Claims.  The rule is the function of Namespace that makes the claim.    *)

Claim(rule, scope, owner, name) ==
  [rule |-> rule, scope |-> scope, owner |-> owner, name |-> name]

Root == <<"Root", 0>>
Variants == <<"Variants", 0>>
Module(call) == <<"Module", call>>
Body(call) == <<"Body", call>>
Instance(group) == <<"Instance", instance_context(group)>>
EnumBody(field) == <<"Enum", field.tag>>

\* Two owners are of a group: its type or module, and its accessor.
GroupOwner(group) == <<"Group", instance_context(group)>>
ClassOwner(group) == <<"Class", instance_context(group)>>
MessageOwner(m) == <<"Message", m>>
Generated == <<"Generated">>

MessageName(m) == spec.messages[m].name
group_source_name(group) ==
  IF group[1].component # None THEN NameOf(group[1].component)
  ELSE without_no_prefix(FieldOf(count_tag(group)).name)

group_base_name(group) == snake_case(group_source_name(group))

\* The claims for each element of a sequence, in order.
ForEach(s, Claims(_)) == FlattenSeq([i \in 1 .. Len(s) |-> Claims(s[i])])
EnumFields == SelectSeq(spec.fields, LAMBDA f : is_enum(Conversion(f)))

\* names: of the values of the enum, in order.
EnumClaims(field, names) ==
  <<Claim("claim_enum", Root, <<"Enum", field.tag>>, field.name)>>
    \o [k \in 1 .. Len(field.codes) |->
          Claim("claim_value", EnumBody(field), <<"Value", field.tag, k>>, names[k])]

\* A group without a type of its own is not read, and claims nothing.
GroupClaims(scope, group, name) ==
  IF is_generated(group) THEN <<Claim("claim", scope, GroupOwner(group), name)>> ELSE <<>>

\* The groups a message or a section declares itself.
OwnGroups(call) ==
  SelectSeq(MemberGroups(sections[call]), LAMBDA g : declared_in(g) = <<call>>)
GeneratedGroups == SelectSeq(declared_groups, is_generated)
SharedGroups == SelectSeq(declared_groups, is_shared)

-----------------------------------------------------------------------------
(* rust/names.rs                                                           *)

RUST_ROOT ==
  {"DIALECT", "Date", "Decimal", "Dialect", "From", "GroupTable", "Header", "Instance",
   "Instances", "InvalidValue", "KnownTags", "Message", "MonthYear", "MultipleValues", "Ok",
   "Option", "RawMessage", "Result", "Some", "Tag", "Time", "Trailer", "UtcTimestamp",
   "bool", "header", "i64", "refix_message", "str", "trailer", "u8"}
RUST_MESSAGE == {"KNOWN_TAGS", "MSG_TYPE", "from_raw", "header", "raw", "trailer"}

\* What with_generated is given for a scope.
RustGenerated(scope) ==
  CASE scope = Root -> RUST_ROOT
    [] scope[1] \in {"Variants", "Enum"} -> {"Unrecognized"}
    [] scope[1] = "Body" /\ scope[2][1] = "Message" -> RUST_MESSAGE
    [] scope[1] \in {"Body", "Instance"} -> {"raw"}
    [] OTHER -> {}

rust_group_name(group) == RustIdentifier(group_base_name(group))
message_module_name(m) == RustIdentifier(snake_case(MessageName(m)))

name_message_module(m) ==
  IF OwnGroups(Message(m)) = <<>> THEN <<>>
  ELSE <<Claim("claim", Root, <<"Module", m>>, message_module_name(m))>>
         \o ForEach(OwnGroups(Message(m)), LAMBDA g :
              <<Claim("claim", Module(Message(m)), GroupOwner(g), rust_group_name(g))>>)

RustFieldClaims(scope, field) ==
  <<Claim("claim", scope, <<"Field", field.tag>>, method_name(field))>>

name_accessors(scope, list) ==
  ForEach(Members(list), LAMBDA i :
    IF list[i].is_group
      THEN GroupClaims(scope, GroupAt(list, i), rust_group_name(GroupAt(list, i)))
      ELSE RustFieldClaims(scope, FieldOf(list[i].tag)))

variant_names(field) ==
  [k \in 1 .. Len(field.descriptions) |-> variant_name(field.descriptions[k])]

rust_name_section(call) ==
  ForEach(OwnGroups(call), LAMBDA g :
    <<Claim("claim", Module(call), GroupOwner(g), rust_group_name(g))>>)
    \o name_accessors(Body(call), sections[call])

RustClaims ==
  LET messages == [m \in 1 .. Len(spec.messages) |-> m]
  IN  ForEach(messages, LAMBDA m :
        <<Claim("claim", Root, MessageOwner(m), MessageName(m)),
          Claim("claim", Variants, MessageOwner(m), MessageName(m))>>)
      \o ForEach(messages, name_message_module)
      \o ForEach(SharedGroups, LAMBDA g :
           <<Claim("claim", Root, GroupOwner(g), rust_group_name(g))>>)
      \o ForEach(Sections, rust_name_section)
      \o ForEach(EnumFields, LAMBDA f : EnumClaims(f, variant_names(f)))
      \o ForEach(MessageCalls, LAMBDA call : name_accessors(Body(call), sections[call]))
      \o ForEach(GeneratedGroups, LAMBDA g : name_accessors(Instance(g), InstanceMembers(g)))

-----------------------------------------------------------------------------
(* python/names.rs                                                         *)

PYTHON_MODULE ==
  {"CODEC", "ClassVar", "Codec", "DIALECT", "Decimal", "Dialect", "GroupTable", "Header",
   "KnownTags", "Message", "MonthYear", "RawMessage", "Trailer", "Unrecognized", "_MESSAGES",
   "annotations", "bool", "bytes", "cached_property", "date", "datetime", "dict", "enum",
   "from_raw", "from_value", "int", "property", "refix", "str", "time", "tuple", "type"}
PYTHON_MESSAGE ==
  {"KNOWN_TAGS", "MSG_TYPE", "__init__", "_raw", "cached_property", "header", "property",
   "raw", "trailer"}
VIEW ==
  {"KNOWN_TAGS", "__init__", "_known_tags", "_raw", "cached_property", "property", "raw"}
INSTANCE_CLASS == {"__init__", "_scope", "cached_property", "property", "raw"}

PythonGenerated(scope) ==
  CASE scope = Root -> PYTHON_MODULE
    [] scope[1] = "Body" /\ scope[2][1] = "Message" -> PYTHON_MESSAGE
    [] scope[1] = "Body" -> VIEW
    [] scope[1] = "Instance" -> INSTANCE_CLASS
    [] OTHER -> {}

group_property_name(group) == PythonIdentifier(group_base_name(group))

PythonFieldClaims(scope, field) ==
  <<Claim("claim", scope, <<"Field", field.tag>>, property_name(field))>>
    \o IF Conversion(field) \in DOMAIN nanos_getter
         THEN <<Claim("claim", scope, <<"Nanos", field.tag>>, nanos_property_name(field))>>
         ELSE <<>>

name_properties(scope, list) ==
  ForEach(Members(list), LAMBDA i :
    IF list[i].is_group
      THEN GroupClaims(scope, GroupAt(list, i), group_property_name(GroupAt(list, i)))
      ELSE PythonFieldClaims(scope, FieldOf(list[i].tag)))

member_names(field) ==
  [k \in 1 .. Len(field.descriptions) |-> member_name(field.descriptions[k])]

\* A message's or a section's own groups nest their classes in its class.
ClassClaims(call) ==
  ForEach(OwnGroups(call), LAMBDA g :
    <<Claim("claim", Body(call), ClassOwner(g), group_source_name(g))>>)

PythonBodyClaims(call) ==
  ClassClaims(call) \o name_properties(Body(call), sections[call])

PythonClaims ==
  ForEach([m \in 1 .. Len(spec.messages) |-> m], LAMBDA m :
    <<Claim("claim", Root, MessageOwner(m), MessageName(m))>>)
  \o ForEach(SharedGroups, LAMBDA g :
       <<Claim("claim", Root, ClassOwner(g), group_source_name(g))>>)
  \o ForEach(EnumFields, LAMBDA f : EnumClaims(f, member_names(f)))
  \o ForEach(MessageCalls, PythonBodyClaims)
  \o ForEach(Sections, PythonBodyClaims)
  \o ForEach(GeneratedGroups, LAMBDA g : name_properties(Instance(g), InstanceMembers(g)))

-----------------------------------------------------------------------------
(* namespace.rs                                                            *)

ClaimsOf(l) == IF l = "Rust" THEN RustClaims ELSE PythonClaims
WithGenerated(scope) ==
  IF language = "Rust" THEN RustGenerated(scope) ELSE PythonGenerated(scope)
numbered(name, number) ==
  IF language = "Rust" THEN numbered_variant(name, number) ELSE numbered_member(name, number)

\* Who has a name in a scope: nobody, or one owner.
Owners(scope, name) ==
  {t.owner : t \in {u \in taken : u.scope = scope /\ u.name = name}}
    \cup (IF name \in WithGenerated(scope) THEN {Generated} ELSE {})
IsFree(scope, name) == Owners(scope, name) = {}

Renamed(claim, first, name) ==
  [kind |-> "Renamed", taken |-> claim.name, first |-> first, second |-> claim.owner,
   name |-> name]

\* What a claim comes to: a name, the owner it was refused for, or both.
Outcome(name, first) == [name |-> name, first |-> first]
Nobody == <<>>

\* Fault: the name an enum yields to is not looked up.
claim_enum_Unclaimed(claim, first) ==
  IF first[1] \in {"Message", "Module", "Group", "Class"}
    THEN Outcome(claim.name \o "Enum", first)
    ELSE Outcome(Unspelled, first)

\* An enum yields to a message or group of its name.
claim_enum(claim, first) ==
  LET name == claim.name \o "Enum"
  IN  IF first[1] \notin {"Message", "Module", "Group", "Class"} THEN Outcome(Unspelled, first)
      ELSE IF IsFree(claim.scope, name) THEN Outcome(name, first)
      ELSE Outcome(Unspelled, CHOOSE owner \in Owners(claim.scope, name) : TRUE)

\* A value is numbered from 2 when an earlier one has its name.
claim_value(claim, first) ==
  IF first[1] # "Value" THEN Outcome(Unspelled, first)
  ELSE LET free == {n \in 2 .. Cardinality(taken) + 2 :
                      IsFree(claim.scope, numbered(claim.name, n))}
       IN  Outcome(numbered(claim.name, Least(free)), first)

Settled(claim) ==
  IF IsFree(claim.scope, claim.name) THEN Outcome(claim.name, Nobody)
  ELSE LET first == CHOOSE owner \in Owners(claim.scope, claim.name) : TRUE
       IN  CASE claim.rule = "claim" -> Outcome(Unspelled, first)
             [] claim.rule = "claim_enum" -> claim_enum(claim, first)
             [] OTHER -> claim_value(claim, first)

\* The error a claim fails with, if it does.
ClaimError(claim, outcome) ==
  IF claim.name = Unspelled THEN <<"Unrepresentable", claim.owner>>
  ELSE IF outcome.name = Unspelled THEN <<"NameClash", claim.name, outcome.first, claim.owner>>
  ELSE <<>>

\* Fault: a rename goes without a warning when the first owner is a value.
RenameWarning_NotOfValues(claim, outcome) ==
  IF outcome.first = Nobody \/ outcome.first[1] = "Value" THEN <<>>
  ELSE <<Renamed(claim, outcome.first, outcome.name)>>

RenameWarning(claim, outcome) ==
  IF outcome.first = Nobody THEN <<>> ELSE <<Renamed(claim, outcome.first, outcome.name)>>

\* The name something was given, for what is emitted later.
NameGiven(owner) == (CHOOSE t \in taken : t.owner = owner).name
=============================================================================
