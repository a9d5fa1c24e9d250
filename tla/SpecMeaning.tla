----------------------------- MODULE SpecMeaning -----------------------------
(***************************************************************************)
(* What a spec means, read from the top down: every message is the paths   *)
(* from it through components and groups to fields.  Nothing is expanded   *)
(* once and kept, as the resolver does, and requiredness is gathered on    *)
(* the way down instead of on the way back.                                *)
(***************************************************************************)
EXTENDS Resolver, FiniteSets

\* The groups anywhere in a member list, and every list in it.
RECURSIVE ListsIn(_)
ListsIn(members) ==
  {members} \cup UNION {ListsIn(members[i].members) :
                          i \in {j \in 1 .. Len(members) : members[j].kind = "Group"}}

MembersIn(members) ==
  UNION {{list[i] : i \in 1 .. Len(list)} : list \in ListsIn(members)}

References(c) ==
  UNION {ComponentsNamed(m.name) :
           m \in {x \in MembersIn(spec.components[c].members) : x.kind = "Component"}}

\* The components on the way from one of a set.
RECURSIVE Reached(_)
Reached(from) ==
  LET next == from \cup UNION {References(c) : c \in from}
  IN  IF next = from THEN from ELSE Reached(next)

IsCircular(c) == c \in Reached(References(c))

\* The entries of a member list in its place: reached through references and
\* groups of which outer tells whether all were required.  In an instance the
\* first member is required, a component there too, and the first field of
\* all.
RECURSIVE Paths(_, _, _, _)
Paths(members, outer, context, sole) ==
  LET instance == Len(context) > 1
      Here(i) == outer /\ (members[i].is_required \/ (instance /\ i = 1))
      Entries(i) ==
        LET m == members[i]
        IN  CASE m.kind = "Field" -> <<ResolvedField(m.tag, outer /\ m.is_required)>>
              [] m.kind = "Component" ->
                   LET c == CHOOSE k \in ComponentsNamed(m.name) : TRUE
                       inner == spec.components[c].members
                   IN  Paths(inner, Here(i), <<Component(c)>>, c)
              [] m.kind = "Group" ->
                   LET inner == Append(context, <<"Group", m.tag>>)
                       group == ResolvedGroup(m.tag, outer /\ m.is_required, context,
                                  require_first(Paths(m.members, TRUE, inner, None)))
                   IN  IF sole # None /\ Len(members) = 1
                         THEN [group EXCEPT ![1].component = sole]
                         ELSE group
      upto[i \in 0 .. Len(members)] ==
        IF i = 0 THEN <<>> ELSE upto[i - 1] \o Entries(i)
  IN  upto[Len(members)]

Meaning(call) ==
  Paths(MembersOf(call), TRUE, <<call>>,
        IF call[1] = "Component" THEN call[2] ELSE None)

\* What the resolver keeps, whatever order it expanded the components in, is
\* what the paths of the spec give: the same fields in the same order, each
\* required if and only if every step on its path is, groups named for the
\* component they make up and the place they are declared in.
ResolvesToItsPaths ==
  /\ \A c \in DOMAIN expansions : expansions[c] = Meaning(Component(c))
  /\ \A call \in DOMAIN sections : sections[call] = Meaning(call)

-----------------------------------------------------------------------------
(* Well-formed specs                                                       *)

AllCalls == {Call(t) : t \in 1 .. LastTurn}
Used == UNION {MembersIn(MembersOf(call)) : call \in AllCalls}

FieldsAgree ==
  /\ \A i \in 1 .. Len(spec.fields) :
       LET f == spec.fields[i]
           codes == {f.codes[k] : k \in 1 .. Len(f.codes)}
           meanings == IF is_int_based(f.data_type)
                         THEN {Integer(code) : code \in codes} ELSE codes
       IN  /\ is_int_based(f.data_type) => \A code \in codes : is_integer(code)
           /\ Cardinality(meanings) = Len(f.codes)
  /\ \A i, j \in 1 .. Len(spec.fields) : i # j =>
       /\ TagOf(i) # TagOf(j)
       /\ spec.fields[i].length_tag = spec.fields[j].length_tag =>
            spec.fields[i].length_tag = None
  /\ \A i \in 1 .. Len(spec.fields) : spec.fields[i].length_tag # None =>
       /\ spec.fields[i].data_type = "Data"
       /\ \E j \in 1 .. Len(spec.fields) :
            TagOf(j) = spec.fields[i].length_tag /\ spec.fields[j].data_type = "Length"

NamesAgree ==
  /\ \A i, j \in 1 .. Len(spec.components) : i # j => NameOf(i) # NameOf(j)
  /\ \A i, j \in 1 .. Len(spec.messages) : i # j => MsgTypeOf(i) # MsgTypeOf(j)
  /\ \A m \in Used :
       IF m.kind = "Component" THEN ComponentsNamed(m.name) # {} ELSE Defined(m.tag)
  /\ \A m \in Used :
       m.kind = "Field" /\ FieldOf(m.tag).data_type = "Data" =>
         FieldOf(m.tag).length_tag # None

GroupsHaveFields(call) ==
  LET entries == Meaning(call)
  IN  \A i \in 1 .. Len(entries) : entries[i].is_group =>
        i < Len(entries) /\ entries[i + 1].depth > entries[i].depth

AllDiffer(members) ==
  \A i, j \in 1 .. Len(members) : i # j => members[i].tag # members[j].tag

WellFormed ==
  /\ FieldsAgree
  /\ NamesAgree
  /\ \A c \in 1 .. Len(spec.components) : ~IsCircular(c)
  /\ \A call \in AllCalls :
       /\ GroupsHaveFields(call)
       /\ AllDiffer(Meaning(call))
       /\ call[1] = "Message" =>
            AllDiffer(Meaning(Header) \o Meaning(call) \o Meaning(Trailer))

\* resolve refuses the specs that are not well-formed and no others: a cycle
\* nothing refers to, an empty group behind two references or a tag repeated
\* across components does not get into a Dictionary.
AcceptsExactlyWellFormed ==
  /\ error # <<>> => ~WellFormed
  /\ turn > LastTurn => WellFormed

\* The error names what is wrong: a component that leads back to itself, or a
\* reference to nothing.
ErrorsAreTrue ==
  error # <<>> =>
    CASE error[1] = "CircularComponent" ->
           \E c \in ComponentsNamed(error[2]) : IsCircular(c)
      [] error[1] = "UnknownComponent" -> ComponentsNamed(error[2]) = {}
      [] error[1] = "UnknownField" -> ~Defined(error[2])
      [] OTHER -> TRUE
=============================================================================
