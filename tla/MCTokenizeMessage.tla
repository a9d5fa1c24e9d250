-------------------------- MODULE MCTokenizeMessage --------------------------
(***************************************************************************)
(* Inputs for TokenizeMessage: messages put together from well-formed      *)
(* pieces, with data values that hold SOH and "="; the same with a length  *)
(* that is wrong; and every short sequence over a small alphabet for the   *)
(* unverified entry.                                                       *)
(***************************************************************************)
EXTENDS TokenizeMessage

\* Tag 7 is a length tag of the dialect, 9 is BodyLength.
MCLengthTags == {7}

Pair(tag, value) == <<tag, value>>

WellFormed ==
  { << Pair(5, <<120>>) >>,
    << Pair(5, <<>>) >>,
    << Pair(5, <<EQUALS, 120>>) >>,
    << Pair(7, <<50>>), Pair(8, <<120, SOH>>) >>,
    << Pair(7, <<51>>), Pair(8, <<SOH, EQUALS, SOH>>) >>,
    << Pair(7, <<48>>), Pair(8, <<>>) >>,
    << Pair(7, <<120>>), Pair(8, <<120>>) >>,
    << Pair(7, <<51>>), Pair(8, <<120, 120, 120>>), Pair(5, <<>>), Pair(7, <<>>) >>,
    << Pair(7, <<49>>), Pair(7, <<49>>), Pair(8, <<SOH>>) >> }

\* The digits of a number below 100.
Digits(n) == IF n < 10 THEN <<48 + n>> ELSE <<48 + (n \div 10), 48 + (n % 10)>>

Encode(pairs) ==
  LET text[i \in 0 .. Len(pairs)] ==
        IF i = 0 THEN <<>>
        ELSE text[i - 1] \o Digits(pairs[i][1]) \o <<EQUALS>> \o pairs[i][2] \o <<SOH>>
  IN  text[Len(pairs)]

Trailer(s) ==
  LET c == Checksum(s) IN <<48 + (c \div 100), 48 + ((c \div 10) % 10), 48 + (c % 10)>>

MsgType == << Pair(35, <<48>>) >>
Preface(body) ==
  << Pair(8, <<70, 73, 88>>), Pair(9, Digits(Len(body))) >>

\* A message with the given body, as pairs and as bytes.
AsBytes(body) ==
  LET s == Encode(Preface(body)) \o body IN s \o Encode(<< Pair(10, Trailer(s)) >>)
AsPairs(pairs) ==
  LET body == Encode(pairs)
      head == Preface(body)
  IN  head \o pairs \o << Pair(10, Trailer(Encode(head) \o body)) >>

Input(entry, text, sep, sent) ==
  [entry |-> entry, bytes |-> text, separator |-> sep, sent |-> sent]

Good ==
  {Input("tokenize", AsBytes(Encode(MsgType \o a \o b)), SOH, AsPairs(MsgType \o a \o b)) :
     a \in WellFormed, b \in WellFormed}

\* Bodies that no sender meant: lengths that are wrong or too large, fields
\* without "=", tags that are not numbers.
Odd ==
  { Encode(<< Pair(7, <<57>>), Pair(8, <<120>>) >>),
    Encode(<< Pair(7, <<57, 57>>), Pair(8, <<120>>) >>),
    Encode(<< Pair(7, <<49>>), Pair(8, <<120, 120>>) >>),
    <<55, SOH>>, <<EQUALS, SOH>>, <<120, EQUALS, SOH>>, <<SOH>>,
    <<55, EQUALS, 49, SOH, 120, SOH>> }

OddMessages ==
  {AsBytes(Encode(MsgType) \o a \o b) : a \in Odd, b \in Odd \cup {<<>>}}

Bad ==
  {Input("tokenize", m, SOH, <<>>) : m \in OddMessages}
    \cup {Input("tokenize", Append(m, 120), SOH, <<>>) : m \in OddMessages}
    \cup {Input("tokenize", SubSeq(m, 1, Len(m) - 9), SOH, <<>>) : m \in OddMessages}
    \cup {Input("tokenize", <<120>>, SOH, <<>>),
          Input("tokenize", Encode(<< Pair(8, <<70, 73, 88>>), Pair(9, <<57, 57>>) >>),
                SOH, <<>>)}

\* "|" separates, and every text of up to MaxLen bytes over "7", "1", "=", "|".
Bar == 124
Texts(n) == UNION {[1 .. k -> {55, 49, EQUALS, Bar}] : k \in 0 .. n}
Raw == {Input("tokenize_fields", t, Bar, <<>>) : t \in Texts(6)}

MCInputs == Good \cup Bad \cup Raw
=============================================================================
