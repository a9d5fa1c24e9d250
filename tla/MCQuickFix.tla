----------------------------- MODULE MCQuickFix -----------------------------
(***************************************************************************)
(* Documents for QuickFix: the same fields listed in every section, after  *)
(* one another, in groups and next to elements that are no members; codes  *)
(* that repeat or are no integers; and every attribute wrong in turn.      *)
(***************************************************************************)
EXTENDS QuickFix

Node(element, name, required, children) ==
  [element |-> element, name |-> name, required |-> required, children |-> children]
F(name) == Node("field", name, Absent, <<>>)
C(name) == Node("component", name, "Y", <<>>)
G(name, children) == Node("group", name, "N", children)
Odd == Node("note", "Text", Absent, <<>>)

FieldNode(name, number, type, codes) ==
  [name |-> name, number |-> number, type |-> type,
   values |-> [i \in 1 .. Len(codes) |-> [code |-> codes[i], missing |-> Nothing]]]

Fields ==
  <<FieldNode("Text", 1, "STRING", <<>>), FieldNode("Count", 2, "NUMINGROUP", <<>>),
    FieldNode("Length", 3, "LENGTH", <<>>), FieldNode("Data", 4, "DATA", <<>>),
    FieldNode("XmlLength", 5, "LENGTH", <<>>), FieldNode("Xml", 6, "XMLDATA", <<>>)>>

Version44 == [type |-> Absent, major |-> 4, minor |-> 4, servicepack |-> NoNumber]

Of(fields, header, component, message, trailer) ==
  [root |-> "fix", version |-> Version44, fields |-> fields, header |-> header,
   components |-> <<[name |-> "Block", children |-> component]>>,
   messages |-> <<[name |-> "News", msgcat |-> "app", msgtype |-> "B",
                   children |-> message]>>,
   trailer |-> trailer]

\* Member lists.
Lists ==
  { <<>>, <<F("Length"), F("Data")>>, <<F("XmlLength"), F("Data")>>,
    <<F("Text"), F("Data")>>, <<F("Length"), Odd, F("Data")>>, <<F("Data")>>,
    <<G("Count", <<F("Length"), F("Data"), Odd>>)>>,
    <<F("XmlLength"), F("Xml"), Odd>>, <<F("Length"), F("Text")>>,
    <<F("Length"), F("Xml")>>, <<F("Text"), C("Block")>>,
    <<F("XmlLength"), C("Block")>> }

Nested ==
  { <<G("Count", <<F("Text"), G("Count", <<F("Length"), F("Xml")>>)>>), F("Data")>>,
    <<G("Count", <<F("Length"), F("Data")>>), F("XmlLength"), F("Data")>>,
    <<G("Count", <<C("Block"), Odd>>), Odd>>, <<C("None")>>, <<C("Block")>>,
    <<G("None", <<F("Text")>>)>>, <<F("None")>>, <<F(Absent)>>, <<C(Absent)>>,
    <<Node("field", "Text", "maybe", <<>>)>>, <<Node("component", "Block", "maybe", <<>>)>>,
    <<G("Count", <<F("None")>>)>>, <<G("Count", <<>>)>> }

Headers == { <<>>, <<F("Length"), F("Data")>>, <<F("XmlLength"), Odd, F("Xml")>> }
Trailers == { <<>>, <<F("Text"), F("Xml")>>, <<G("Count", <<F("Length"), F("Data")>>)>> }

Listings ==
  {Of(Fields, <<>>, c, m, <<>>) : c \in Lists, m \in Lists \cup Nested}
    \cup {Of(Fields, h, c, m, t) :
             h \in Headers, t \in Trailers,
             c \in {<<>>, <<F("Length"), F("Data")>>, <<F("Text")>>}, m \in Lists}

\* Codes 1, 01, +1, A, -.
Codes == { <<49>>, <<48, 49>>, <<43, 49>>, <<65>>, <<45>> }
Coded ==
  {Of(<<FieldNode("Code", 1, type, <<a, b, c>>), FieldNode("Other", 2, "INT", <<a>>)>>,
      <<>>, <<>>, <<F("Code")>>, <<F("Other")>>) :
     type \in {"INT", "STRING"}, a \in Codes, b \in Codes, c \in Codes}

\* Fields that are wrong, by themselves or beside another, a data field's
\* type given to two fields of one tag.
WrongField ==
  { FieldNode(Absent, 1, "INT", <<>>), FieldNode("Text", NoNumber, "INT", <<>>),
    FieldNode("Text", Malformed, "INT", <<>>), FieldNode("Text", U32_MAX + 1, "INT", <<>>),
    FieldNode("Text", U32_MAX, "INT", <<>>), FieldNode("Text", 4, Absent, <<>>),
    FieldNode("More", 4, "STRING", <<>>), FieldNode("More", 3, "STRING", <<>>),
    [FieldNode("Text", 1, "STRING", <<<<65>>>>) EXCEPT !.values[1].missing = "enum"],
    [FieldNode("Text", 1, "STRING", <<<<65>>, <<65>>>>)
       EXCEPT !.values[2].missing = "description"] }
WrongFields ==
  {Of(Append(Fields, f), <<>>, <<F("Length"), F("Data")>>, <<C("Block")>>, <<>>) :
     f \in WrongField}
    \cup {Of(<<f>> \o Fields, <<>>, <<F("Length"), F("Data")>>, <<C("Block")>>, <<>>) :
             f \in WrongField}

Plain == Of(Fields, <<F("Length"), F("Data")>>, <<F("Text")>>, <<C("Block")>>, <<F("XmlLength")>>)
Numbers == {NoNumber, Malformed, 0, U8_MAX, U8_MAX + 1}
WrongAttributes ==
  {[Plain EXCEPT !.version.major = n] : n \in Numbers}
    \cup {[Plain EXCEPT !.version.minor = n] : n \in Numbers}
    \cup {[Plain EXCEPT !.version.servicepack = n] : n \in Numbers}
    \cup {[Plain EXCEPT !.version.type = t] : t \in {"FIX", "FIXT", "XML"}}
    \cup {[Plain EXCEPT !.root = "fixes"], [Plain EXCEPT !.components[1].name = Absent],
          [Plain EXCEPT !.messages[1].name = Absent],
          [Plain EXCEPT !.messages[1].msgtype = Absent]}
    \cup {[Plain EXCEPT !.messages[1].msgcat = c] : c \in {Absent, "admin", "other"}}

MCDocuments == Listings \cup Coded \cup WrongFields \cup WrongAttributes
=============================================================================
