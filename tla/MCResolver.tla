----------------------------- MODULE MCResolver -----------------------------
(***************************************************************************)
(* Specs for Resolver: three components that refer to one another in every *)
(* way of a set of member lists, messages with a header and a trailer, and *)
(* field definitions that fail each of the opening checks.                 *)
(***************************************************************************)
EXTENDS SpecMeaning

F(tag) == FieldRef(tag, FALSE)
FR(tag) == FieldRef(tag, TRUE)
R(name) == ComponentRef(name, TRUE)
O(name) == ComponentRef(name, FALSE)

\* Tags 1 to 4 are plain, 6 is a data field with length 5, 7 one without.
PlainFields ==
  <<Field(1, "Int", None, <<>>), Field(2, "Int", None, <<>>),
    Field(3, "Int", None, <<>>), Field(4, "Int", None, <<>>),
    Field(5, "Length", None, <<>>), Field(6, "Data", 5, <<>>),
    Field(7, "Data", None, <<>>)>>

Of(fields, components, header, messages, trailer) ==
  [fields |-> fields, header |-> header, trailer |-> trailer,
   components |-> [i \in 1 .. Len(components) |->
     [name |-> <<"A", "B", "C">>[i], members |-> components[i]]] \o <<>>,
   messages |-> [i \in 1 .. Len(messages) |->
     [msg_type |-> i, members |-> messages[i]]] \o <<>>]

\* What a component can hold: fields, references, groups of both.
Parts ==
  { <<>>, <<FR(1)>>, <<F(2), FR(1)>>, <<O("A")>>, <<R("B")>>, <<FR(2), O("C")>>,
    <<O("C"), R("B")>>,
    <<Group(3, TRUE, <<F(1)>>)>>,
    <<Group(3, FALSE, <<O("C"), F(2)>>)>>,
    <<Group(3, TRUE, <<O("B")>>)>>,
    <<Group(3, TRUE, <<O("A"), O("C")>>), F(1)>>,
    <<Group(3, FALSE, <<Group(4, FALSE, <<F(1), FR(2)>>)>>)>>,
    <<Group(3, FALSE, <<F(3)>>)>> }

Leaves ==
  { <<FR(1)>>, <<>>, <<F(1), Group(4, TRUE, <<F(2)>>)>>, <<R("A")>>,
    <<Group(4, FALSE, <<O("B"), FR(2)>>)>> }

Bodies ==
  { <<O("A")>>, <<R("A"), F(4)>>, <<R("B"), FR(1)>>,
    <<Group(4, FALSE, <<O("A"), O("C")>>), F(3)>> }

Structures ==
  {Of(PlainFields, <<a, b, c>>, <<FR(5)>>, <<m>>, <<F(6)>>) :
     a \in Parts, b \in Parts, c \in Leaves, m \in Bodies}

\* Sections that share tags or refer to what there is not.
Sections ==
  { <<>>, <<F(1)>>, <<O("A")>>, <<R("Z")>>, <<F(9)>>, <<F(7)>>,
    <<Group(3, TRUE, <<R("B")>>)>>, <<Group(3, TRUE, <<>>)>>, <<Group(9, TRUE, <<F(1)>>)>>,
    <<FR(5), F(6)>> }

Messages ==
  {Of(PlainFields, <<<<F(1), FR(4)>>, <<O("A"), F(2)>>>>, h, <<m, n>>, t) :
     h \in Sections, t \in Sections, m \in Sections, n \in {<<F(2)>>, <<O("B")>>}}

\* Codes 1, 01, -1, +1, - and the least and greatest integers and the next ones.
Code == [one |-> <<49>>, zero_one |-> <<48, 49>>, minus_one |-> <<45, 49>>,
         plus_one |-> <<43, 49>>, minus |-> <<45>>, empty |-> <<>>, letter |-> <<65>>,
         least |-> <<45, 49, 48>>, below |-> <<45, 49, 49>>,
         greatest |-> <<57>>, above |-> <<49, 48>>]

Coded ==
  {Of(<<Field(1, t, None, <<Code[x], Code[y]>>)>>, <<>>, <<>>, <<>>, <<>>) :
     t \in {"Int", "Length", "String"}, x \in DOMAIN Code, y \in DOMAIN Code}

Measured ==
  {Of(<<Field(1, a, x, <<>>), Field(i, b, y, <<>>), Field(3, "Data", 1, <<>>)>>,
      <<>>, <<>>, <<<<F(3)>>>>, <<>>) :
     a \in {"Length", "Data"}, b \in {"Int", "Data"}, i \in {1, 2},
     x \in {None, 2}, y \in {None, 1, 4}}

Repeated2 ==
  {[Of(PlainFields, <<<<F(1)>>, <<F(2)>>>>, <<>>, <<<<F(3)>>, <<F(4)>>>>, <<>>)
      EXCEPT !.components[2].name = n, !.messages[2].msg_type = m] :
     n \in {"A", "B"}, m \in {1, 2}}

MCSpecs == Structures \cup Messages \cup Coded \cup Measured \cup Repeated2
=============================================================================
