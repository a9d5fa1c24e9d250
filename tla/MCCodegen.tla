------------------------------ MODULE MCCodegen ------------------------------
(***************************************************************************)
(* Dictionaries for Codegen: groups in messages, components, the header    *)
(* and other groups; fields of every conversion in all of them; names that *)
(* clash with one another, with keywords and with what the code relies on; *)
(* and values that are spelled alike.                                      *)
(***************************************************************************)
EXTENDS Codegen

F(tag) == FieldRef(tag, FALSE)
C(name) == ComponentRef(name, FALSE)
G(tag, members) == Group(tag, FALSE, members)

Named(tag, name, type, descriptions) ==
  [name |-> name, tag |-> tag, data_type |-> type, length_tag |-> None,
   codes |-> [k \in 1 .. Len(descriptions) |-> <<48 + k>>], descriptions |-> descriptions]

Fields ==
  << Named(1, "NoLegs", "Int", <<>>), Named(2, "NoPartyIDs", "Int", <<>>),
     Named(3, "Side", "String", <<"BUY", "SELL">>), Named(4, "Price", "Float", <<>>),
     Named(5, "Type", "Int", <<>>), Named(6, "SendingTime", "UtcTimestamp", <<>>),
     Named(7, "SendingTimeNs", "Date", <<>>), Named(8, "Custom", "Other", <<>>),
     Named(9, "Notes", "Int", <<>>), Named(10, "Legs", "MonthYear", <<>>),
     Named(11, "ExecInst", "Multiple", <<"5YR", "A_B">>), Named(12, "SignatureLength", "Length", <<>>),
     [Named(13, "Signature", "Data", <<>>) EXCEPT !.length_tag = 12],
     Named(14, "Flags", "Multiple", <<>>), Named(15, "Sent", "Boolean", <<"YES">>),
     Named(16, "OpenTime", "Time", <<>>) >>

Dictionary(fields, header, components, messages, trailer) ==
  [fields |-> fields, header |-> header, trailer |-> trailer,
   components |-> [i \in 1 .. Len(components) |->
     [name |-> <<"Parties", "Block">>[i], members |-> components[i]]] \o <<>>,
   messages |-> [i \in 1 .. Len(messages) |->
     [msg_type |-> i, name |-> <<"News", "Quote">>[i], members |-> messages[i]]] \o <<>>]

\* A group that is its component, and one beside other members.
Parties ==
  { <<G(2, <<F(3), F(6)>>)>>, <<G(2, <<F(4)>>), F(8)>>,
    <<G(2, <<F(5), G(9, <<F(16), F(8)>>)>>)>>, <<F(14)>> }
Blocks ==
  { <<F(10)>>, <<G(1, <<C("Parties")>>)>>, <<G(1, <<F(10), C("Parties")>>), F(5)>>,
    <<C("Parties"), F(4)>> }
Bodies1 ==
  { <<>>, <<F(11), F(15)>>, <<C("Block")>>, <<G(1, <<F(4), F(8)>>)>>,
    <<G(9, <<C("Block"), F(11)>>)>>, <<C("Parties"), C("Block")>>,
    <<G(9, <<G(1, <<F(11), F(4)>>), C("Parties")>>)>>,
    <<G(9, <<F(3), G(1, <<F(11), C("Parties")>>)>>)>> }
Headers == { <<>>, <<F(12), F(13)>>, <<G(9, <<F(16)>>)>>, <<C("Parties")>> }

Structured ==
  {Dictionary(Fields, h, <<p, b>>, <<m, <<F(15), C("Block")>>>>, t) :
     p \in Parties, b \in Blocks, m \in Bodies1, h \in Headers, t \in {<<>>, <<F(16)>>}}
    \cup {Dictionary(Fields, h, <<p, b>>, <<>>, <<F(16)>>) : p \in Parties, b \in Blocks, h \in Headers}

\* Values that are spelled alike, whatever is numbered before the rest.
Descriptions == { "EURIBOR", "EURIBOR_2", "_EURIBOR", "EURIBOR2", "Self", "5YR", "UNRECOGNIZED" }
Listed ==
  {Dictionary(<<Named(1, "Rate", "Int", <<a, b, c>>), Named(2, "Other", "String", <<"A">>)>>,
              <<>>, <<>>, <<<<F(1), F(2)>>>>, <<>>) :
     a \in Descriptions, b \in Descriptions, c \in Descriptions \cup {"EURIBOR2_2"}}

\* One name for a field, a message, a group and a component, and names that
\* the code relies on or may not have.
Clashing ==
  { "Side", "SideEnum", "Legs", "Header", "Date", "Type", "Self", "Raw", "Decimal", "Property",
    "SendingTimeNs", "Str", "Refix", "KnownTags" }
Renaming ==
  {[Dictionary(<<Named(1, "No" \o g, "Int", <<>>), Named(2, f, type, IF type = "Int" THEN <<>> ELSE <<"A", "B">>),
                 Named(3, "Side", "Int", <<"A">>), Named(4, "SideEnum", "String", e),
                 Named(5, "SendingTime", "UtcTimestamp", <<>>)>>,
               <<>>, <<<<F(3)>>, IF own THEN <<F(5)>> ELSE <<G(1, <<F(2), F(4)>>)>>>>,
               <<IF own THEN <<G(1, <<F(2)>>), F(5), F(4)>> ELSE <<F(3), C("Block")>>>>, <<>>)
      EXCEPT !.messages[1].name = m] :
     g \in {"Sides", "Legs"} \cup {"Side", "Raw", "Date"}, f \in Clashing, type \in {"Int", "String"},
     m \in {"Legs", "Side", "SideEnum", "News"}, e \in {<<>>, <<"A">>}, own \in BOOLEAN}

\* Codes that are one number and two texts.
Coded ==
  {[Dictionary(<<Named(1, "Rate", type, <<"A", "B">>)>>, <<>>, <<>>, <<<<F(1)>>>>, <<>>)
      EXCEPT !.fields[1].codes = <<<<49>>, <<48, 49>>>>] : type \in {"Int", "String"}}

MCSpecs == Structured \cup Listed \cup Renaming \cup Coded
=============================================================================
