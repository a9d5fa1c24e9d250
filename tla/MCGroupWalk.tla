---------------------------- MODULE MCGroupWalk ----------------------------
(***************************************************************************)
(* Messages for GroupWalk, with the tables of group.rs's tests: parties    *)
(* (453) that start with 448 and hold sub ids (802) that start with 523,   *)
(* which here hold a third level (900).  The fields after the count are    *)
(* every short sequence of tags, and groups that a sender encoded.         *)
(***************************************************************************)
EXTENDS GroupWalk, SequencesExt

Deep == [count_tag |-> 900, delimiter |-> 901, members |-> {901}, nested |-> {}]
SubIds == [count_tag |-> 802, delimiter |-> 523, members |-> {523, 803, 900}, nested |-> {Deep}]
Parties == [count_tag |-> 453, delimiter |-> 448, members |-> {448, 452, 802},
            nested |-> {SubIds}]

MCTables == {Parties, SubIds, Deep}

MCKnown == {54, 448, 452, 453, 523, 802, 803, 900, 901}

F(tag) == [tag |-> tag, count |-> None]
C(tag, n) == [tag |-> tag, count |-> n]

\* 448, 452, 802 (one), 523, 54 (another known tag), 5001 (unknown) and 10.
Alphabet == {F(448), F(452), C(802, 1), F(523), C(900, 1), F(901), F(54), F(5001), F(10)}
Texts(n) == UNION {[1 .. k -> Alphabet] : k \in 0 .. n}

Anything ==
  {[fields |-> <<C(453, c)>> \o t, expected |-> {}] : c \in {None, 1, 2}, t \in Texts(4)}

\* A party as its sender may write it: the delimiter, then the rest in an
\* order of its own.
Party ==
  {<<F(448)>> \o t :
     t \in {<<>>, <<F(452)>>, <<F(5001), F(452)>>, <<C(802, 0), F(452)>>,
            <<C(802, 1), F(523), F(803), F(452)>>,
            <<F(452), C(802, 2), F(523), F(523), F(803), F(5001)>>,
            <<C(802, 2), F(523), C(900, 2), F(901), F(901), F(803), F(523), F(452)>>}}

Sent(before, parties, after) ==
  LET starts[i \in 0 .. Len(parties)] ==
        IF i = 0 THEN Len(before) + 1 ELSE starts[i - 1] + Len(parties[i])
  IN  [fields |-> before \o <<C(453, Len(parties))>> \o FlattenSeq(parties) \o after,
       expected |-> {[i \in 1 .. Len(parties) |-> Scope(starts[i - 1], starts[i])]}]

Encoded ==
  {Sent(b, p, a) : b \in {<<>>, <<F(5001), F(54)>>},
                   p \in UNION {[1 .. n -> Party] : n \in 0 .. 2},
                   a \in {<<F(10)>>, <<F(54), F(448), F(10)>>}}

MCMessages == Anything \cup Encoded
=============================================================================
