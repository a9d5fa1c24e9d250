------------------------------ MODULE Resolver ------------------------------
(***************************************************************************)
(* Spec::resolve (dictionary/resolver.rs): checks a data dictionary as its *)
(* author wrote it and expands the components its member lists refer to.   *)
(* resolve_members, expand_component and resolve_group call one another;   *)
(* frames is their call stack, and a step is one turn of the loop over a   *)
(* member list, or the end of one.                                         *)
(*                                                                         *)
(* A resolved member list is kept in wire order with the depth of each     *)
(* entry: a group's count field, then its instance's members one deeper.   *)
(***************************************************************************)
EXTENDS Bytes

CONSTANTS
  Specs,     \* the specs that are resolved
  I64_MAX    \* i64::MAX: what a code can be and still be an integer

ASSUME ResolverAssumption == I64_MAX \in Nat

VARIABLES
  spec,        \* the spec, which does not change
  turn,        \* 0 for the checks of Resolver::new, then the call in turn
  frames,      \* the calls of resolve_members in progress, innermost last
  expansions,  \* Resolver.expansions: the members of expanded components
  sections,    \* the members of the header, the trailer and the messages
  error        \* <<>>, or the error resolve returns

vars == <<spec, turn, frames, expansions, sections, error>>

\* spec::Member and the parts of a Spec that resolve reads.
FieldRef(tag, required) == [kind |-> "Field", tag |-> tag, is_required |-> required]
ComponentRef(name, required) ==
  [kind |-> "Component", name |-> name, is_required |-> required]
Group(count_tag, required, members) ==
  [kind |-> "Group", tag |-> count_tag, is_required |-> required, members |-> members]
Field(tag, type, length_tag, codes) ==
  [tag |-> tag, data_type |-> type, length_tag |-> length_tag, codes |-> codes]

None == 0
is_int_based(type) == type \in {"Int", "Length"}
has_length_field(type) == type = "Data"

-----------------------------------------------------------------------------
(* Resolver::new                                                           *)

\* A code is its bytes.
PLUS == 43
MINUS == 45

Unsigned(code) == IF code # <<>> /\ code[1] \in {PLUS, MINUS} THEN Tail(code) ELSE code
Integer(code) ==
  IF code[1] = MINUS THEN -Number(Unsigned(code)) ELSE Number(Unsigned(code))

\* str::parse::<i64>, which takes a "+" too.
parses(code) ==
  /\ Unsigned(code) # <<>> /\ AllDigits(Unsigned(code))
  /\ Integer(code) \in -I64_MAX - 1 .. I64_MAX

is_integer(code) == parses(code) /\ code[1] # PLUS

canonical_code(type, code) ==
  IF is_int_based(type) /\ parses(code) THEN <<"Number", Integer(code)>>
  ELSE <<"Text", code>>

Repeats(values) == \E i, j \in 1 .. Len(values) : i < j /\ values[i] = values[j]

check_int_values ==
  \A i \in 1 .. Len(spec.fields) :
     is_int_based(spec.fields[i].data_type) =>
       \A k \in 1 .. Len(spec.fields[i].codes) : is_integer(spec.fields[i].codes[k])

check_unique_codes ==
  \A i \in 1 .. Len(spec.fields) :
     LET f == spec.fields[i]
     IN  ~Repeats([k \in 1 .. Len(f.codes) |-> canonical_code(f.data_type, f.codes[k])])

MsgTypeOf(i) == spec.messages[i].msg_type
TagOf(i) == spec.fields[i].tag
NameOf(i) == spec.components[i].name

Defined(tag) == \E i \in 1 .. Len(spec.fields) : TagOf(i) = tag
FieldOf(tag) ==
  spec.fields[CHOOSE i \in 1 .. Len(spec.fields) : TagOf(i) = tag]

\* check_length_tags up to the field that fails: the length tags of the
\* fields before it are the ones taken.
LengthTagError(i) ==
  LET f == spec.fields[i]
      taken == \E j \in 1 .. i - 1 : spec.fields[j].length_tag = f.length_tag
  IN  IF f.length_tag = None THEN <<>>
      ELSE IF ~has_length_field(f.data_type) THEN <<"UnexpectedLengthTag">>
      ELSE IF ~Defined(f.length_tag) THEN <<"UnknownLengthTag">>
      ELSE IF FieldOf(f.length_tag).data_type # "Length" THEN <<"NonLengthField">>
      ELSE IF taken THEN <<"SharedLengthField">>
      ELSE <<>>

check_length_tags ==
  LET wrong == {i \in 1 .. Len(spec.fields) : LengthTagError(i) # <<>>}
  IN  IF wrong = {} THEN <<>> ELSE LengthTagError(Least(wrong))

NewError ==
  IF ~check_int_values THEN <<"NonIntegerValue">>
  ELSE IF ~check_unique_codes THEN <<"RepeatedCode">>
  ELSE IF Repeats([i \in 1 .. Len(spec.messages) |-> MsgTypeOf(i)]) THEN <<"DuplicateMsgType">>
  ELSE IF Repeats([i \in 1 .. Len(spec.fields) |-> TagOf(i)]) THEN <<"DuplicateTag">>
  ELSE IF check_length_tags # <<>> THEN check_length_tags
  ELSE IF Repeats([i \in 1 .. Len(spec.components) |-> NameOf(i)]) THEN <<"DuplicateComponent">>
  ELSE <<>>

-----------------------------------------------------------------------------
(* Resolved members                                                        *)

ResolvedField(tag, required) ==
  [tag |-> tag, is_required |-> required, depth |-> 0, is_group |-> FALSE,
   declared_in |-> <<>>, component |-> None]

Deeper(members) == [i \in 1 .. Len(members) |-> [members[i] EXCEPT !.depth = @ + 1]]

ResolvedGroup(tag, required, context, members) ==
  <<[tag |-> tag, is_required |-> required, depth |-> 0, is_group |-> TRUE,
     declared_in |-> context, component |-> None]>> \o Deeper(members)

\* extend_with_expansion: groups' instances keep their own requiredness.
combine_required(members, required) ==
  [i \in 1 .. Len(members) |->
     IF members[i].depth = 0
       THEN [members[i] EXCEPT !.is_required = @ /\ required]
       ELSE members[i]]

require_first(members) ==
  IF members = <<>> THEN members ELSE [members EXCEPT ![1].is_required = TRUE]

\* check_unique_tags: the tag that insert_unique_tags finds taken, at any
\* depth, as a set of at most one.
RepeatedTag(members) ==
  LET again == {j \in 1 .. Len(members) :
                  \E i \in 1 .. j - 1 : members[i].tag = members[j].tag}
  IN  IF again = {} THEN {} ELSE {members[Least(again)].tag}

\* The group of a component that is nothing else names the component.
SoleGroup(component, members) ==
  IF /\ Len(spec.components[component].members) = 1
     /\ spec.components[component].members[1].kind = "Group"
    THEN [members EXCEPT ![1].component = component]
    ELSE members

-----------------------------------------------------------------------------
(* The calls of resolve_members.  A context is the call in turn or of a    *)
(* component, then the count tags of the groups the list is nested in.     *)

Component(c) == <<"Component", c>>
Header == <<"Header", 0>>
Trailer == <<"Trailer", 0>>
Message(m) == <<"Message", m>>

\* expand_components, then the header, the trailer and each message.
Call(t) ==
  LET n == Len(spec.components)
  IN  CASE t <= n -> Component(t)
        [] t = n + 1 -> Header
        [] t = n + 2 -> Trailer
        [] OTHER -> Message(t - n - 2)

LastTurn == Len(spec.components) + 2 + Len(spec.messages)

MembersOf(call) ==
  CASE call[1] = "Component" -> spec.components[call[2]].members
    [] call[1] = "Header" -> spec.header
    [] call[1] = "Trailer" -> spec.trailer
    [] OTHER -> spec.messages[call[2]].members

Frame(context, members) ==
  [context |-> context, members |-> members, position |-> 1, resolved |-> <<>>]

top == frames[Len(frames)]
below == SubSeq(frames, 1, Len(frames) - 1)
member == top.members[top.position]
is_instance == Len(top.context) > 1

\* Resolver.stack: the components being expanded.
stack ==
  {frames[i].context[1][2] : i \in {j \in 1 .. Len(frames) :
     frames[j].context[1][1] = "Component"}}

ComponentsNamed(name) == {c \in 1 .. Len(spec.components) : NameOf(c) = name}

\* The frame with what its next member resolves to.
Extended(frame, members) ==
  [frame EXCEPT !.resolved = @ \o members, !.position = @ + 1]

\* A call fails with an error, and so do all that wait for it.
Fail(e) == error' = e /\ UNCHANGED <<spec, turn, frames, expansions, sections>>

Init ==
  /\ spec \in Specs
  /\ turn = 0
  /\ frames = <<>>
  /\ expansions = <<>>
  /\ sections = <<>>
  /\ error = <<>>

-----------------------------------------------------------------------------
new ==
  /\ turn = 0
  /\ \/ NewError # <<>> /\ Fail(NewError)
     \/ /\ NewError = <<>>
        /\ turn' = 1
        /\ UNCHANGED <<spec, frames, expansions, sections, error>>

\* The call in turn begins, unless it is to expand a component that an
\* earlier call has expanded.
Begin ==
  /\ turn \in 1 .. LastTurn /\ frames = <<>>
  /\ LET call == Call(turn)
     IN  \/ /\ call[1] = "Component" /\ call[2] \in DOMAIN expansions
            /\ turn' = turn + 1
            /\ UNCHANGED <<spec, frames, expansions, sections, error>>
         \/ /\ ~(call[1] = "Component" /\ call[2] \in DOMAIN expansions)
            /\ frames' = <<Frame(<<call>>, MembersOf(call))>>
            /\ UNCHANGED <<spec, turn, expansions, sections, error>>

InList(kind) ==
  /\ frames # <<>>
  /\ top.position <= Len(top.members)
  /\ member.kind = kind

Take(members) ==
  /\ frames' = Append(below, Extended(top, members))
  /\ UNCHANGED <<spec, turn, expansions, sections, error>>

Enter(context, members) ==
  /\ frames' = Append(frames, Frame(context, members))
  /\ UNCHANGED <<spec, turn, expansions, sections, error>>

resolve_field_ref ==
  /\ InList("Field")
  /\ \/ ~Defined(member.tag) /\ Fail(<<"UnknownField", member.tag>>)
     \/ /\ Defined(member.tag)
        /\ LET f == FieldOf(member.tag)
               unmeasured == has_length_field(f.data_type) /\ f.length_tag = None
           IN  \/ unmeasured /\ Fail(<<"MissingLengthTag", member.tag>>)
               \/ ~unmeasured /\ Take(<<ResolvedField(member.tag, member.is_required)>>)

Expandable(c) == c \notin stack

\* Fault: the first member of an instance is as required as it is declared.
IsRequiredHere_Declared == member.is_required

\* A component reference expands the component first, if need be, and then
\* splices its expansion in.
IsRequiredHere == member.is_required \/ (is_instance /\ top.position = 1)

\* Fault: the error names the component the expansion began with.
CircularError_Outermost == <<"CircularComponent", NameOf(frames[1].context[1][2])>>

CircularError == <<"CircularComponent", member.name>>

ResolveComponentRef ==
  /\ InList("Component")
  /\ \/ /\ ComponentsNamed(member.name) = {}
        /\ Fail(<<"UnknownComponent", member.name>>)
     \/ \E c \in ComponentsNamed(member.name) :
          \/ /\ c \in DOMAIN expansions
             /\ Take(combine_required(expansions[c], IsRequiredHere))
          \/ /\ c \notin DOMAIN expansions
             /\ \/ Expandable(c) /\ Enter(<<Component(c)>>, MembersOf(Component(c)))
                \/ ~Expandable(c) /\ Fail(CircularError)

resolve_group ==
  /\ InList("Group")
  /\ \/ ~Defined(member.tag) /\ Fail(<<"UnknownField", member.tag>>)
     \/ /\ Defined(member.tag)
        /\ Enter(Append(top.context, <<"Group", member.tag>>), member.members)

-----------------------------------------------------------------------------
(* The end of a member list                                                *)

AtEnd == frames # <<>> /\ top.position > Len(top.members)

Resolved == IF is_instance THEN require_first(top.resolved) ELSE top.resolved

\* What must not repeat a tag: the list, and with a message's also its header
\* and trailer.
MessageTags(members) == sections[Header] \o members \o sections[Trailer]

Repeated ==
  IF RepeatedTag(Resolved) # {} THEN RepeatedTag(Resolved)
  ELSE IF top.context[1][1] = "Message" /\ ~is_instance
         THEN RepeatedTag(MessageTags(Resolved))
         ELSE {}

Put(function, key, members) ==
  [k \in DOMAIN function \cup {key} |-> IF k = key THEN members ELSE function[k]]

\* Fault: a group may have no members.
EndOfGroup_AllowEmpty ==
  /\ is_instance
  /\ LET outer == below[Len(below)]
         group == outer.members[outer.position]
         entries == ResolvedGroup(group.tag, group.is_required, outer.context, Resolved)
     IN  frames' = [below EXCEPT ![Len(below)] = Extended(outer, entries)]
  /\ UNCHANGED <<spec, turn, expansions, sections, error>>

\* resolve_group goes on in the list that holds the group.
EndOfGroup ==
  /\ is_instance
  /\ \/ Resolved = <<>> /\ Fail(<<"EmptyGroup", top.context[Len(top.context)][2]>>)
     \/ /\ Resolved # <<>>
        /\ LET outer == below[Len(below)]
               group == outer.members[outer.position]
               entries == ResolvedGroup(group.tag, group.is_required, outer.context, Resolved)
           IN  frames' = [below EXCEPT ![Len(below)] = Extended(outer, entries)]
        /\ UNCHANGED <<spec, turn, expansions, sections, error>>

\* Fault: only the expansion of the call in turn is kept.
EndOfComponent_Forget ==
  /\ ~is_instance /\ top.context[1][1] = "Component"
  /\ LET c == top.context[1][2]
     IN  expansions' = IF below = <<>> THEN Put(expansions, c, SoleGroup(c, Resolved))
                       ELSE expansions
  /\ frames' = below
  /\ turn' = IF below = <<>> THEN turn + 1 ELSE turn
  /\ UNCHANGED <<spec, sections, error>>

\* expand_component keeps the expansion; the list that refers to it, if one
\* does, goes on to splice it in.
EndOfComponent ==
  /\ ~is_instance /\ top.context[1][1] = "Component"
  /\ LET c == top.context[1][2]
     IN  expansions' = Put(expansions, c, SoleGroup(c, Resolved))
  /\ frames' = below
  /\ turn' = IF below = <<>> THEN turn + 1 ELSE turn
  /\ UNCHANGED <<spec, sections, error>>

EndOfSection ==
  /\ ~is_instance /\ top.context[1][1] # "Component"
  /\ sections' = Put(sections, top.context[1], Resolved)
  /\ frames' = below
  /\ turn' = turn + 1
  /\ UNCHANGED <<spec, expansions, error>>

EndOfList ==
  /\ AtEnd
  /\ \/ \E tag \in Repeated : Fail(<<"DuplicateField", tag>>)
     \/ Repeated = {} /\ (EndOfGroup \/ EndOfComponent \/ EndOfSection)

Next ==
  /\ error = <<>>
  /\ \/ new \/ Begin
     \/ resolve_field_ref \/ ResolveComponentRef \/ resolve_group
     \/ EndOfList

Spec == Init /\ [][Next]_vars

\* resolve runs to its end: nothing it does waits for anything.
FairSpec == Spec /\ WF_vars(Next)

-----------------------------------------------------------------------------
TypeOK ==
  /\ turn \in 0 .. LastTurn + 1
  /\ turn \notin 1 .. LastTurn => frames = <<>>
  /\ \A i \in 1 .. Len(frames) :
       frames[i].position \in 1 .. Len(frames[i].members) + 1
  /\ DOMAIN expansions \subseteq 1 .. Len(spec.components)
  /\ DOMAIN sections = {Call(t) : t \in Len(spec.components) + 1 .. turn - 1}
  /\ Len(error) <= 2

\* Every spec is resolved or refused in the end, however its components refer
\* to one another.
Terminates == <>(error # <<>> \/ turn > LastTurn)
=============================================================================
