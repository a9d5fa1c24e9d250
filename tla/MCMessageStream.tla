--------------------------- MODULE MCMessageStream ---------------------------
(***************************************************************************)
(* Streams for MessageStream, put together from pieces: whole messages,    *)
(* frames that fail each check, and fragments that end or begin in the     *)
(* middle of "8=FIX".                                                      *)
(***************************************************************************)
EXTENDS MessageStream

\* "8=FIX" SOH and "9=" n SOH, and a CheckSum field with the digits of c.
Begin == BEGIN_STRING_PREFIX \o <<SOH>>
BodyLength(digits) == BODY_LENGTH_TAG \o digits \o <<SOH>>
Trailer(c) ==
  CHECKSUM_TAG \o <<48 + (c \div 100), 48 + ((c \div 10) % 10), 48 + (c % 10), SOH>>

MsgType == MSG_TYPE_TAG \o <<48, SOH>>
NoMsgType == <<51, 52, 61, 48, SOH>>

Framed(head, body) == LET s == head \o body IN s \o Trailer(Checksum(s))

Header == Begin \o BodyLength(<<53>>)
Message == Framed(Header, MsgType)

Pieces ==
  { Message,
    \* A frame whose checksum is wrong, and one whose trailer is not digits.
    Header \o MsgType \o Trailer((Checksum(Header \o MsgType) + 1) % 256),
    Header \o MsgType \o CHECKSUM_TAG \o <<88, 88, 88, SOH>>,
    \* A frame without a MsgType, and one without a body.
    Framed(Header, NoMsgType),
    Framed(Begin \o BodyLength(<<48>>), <<>>),
    \* A BodyLength that lands in the next message, on the next message's
    \* trailer (5 + 7 + 22 - 7 = 27), beyond the cap, and that is no number.
    Begin \o BodyLength(<<57>>) \o MsgType,
    Begin \o BodyLength(<<50, 55>>) \o MsgType \o Trailer(0),
    Begin \o BodyLength(<<57, 57>>),
    Begin \o BodyLength(<<>>),
    Begin \o BODY_LENGTH_TAG \o <<53, 53, 53, 53>>,
    \* A BeginString that is not followed by BodyLength, or too long.
    Begin \o MsgType,
    BEGIN_STRING_PREFIX \o <<52, 52, 52, 52, 52>>,
    \* Bytes that are no frame, alone and with a partial prefix at the end.
    <<120>>,
    <<120, 56>>,
    <<56, 61, 70>>,
    <<56, 56, 61>> }

\* Every piece before a message, after one, and between one and a partial
\* prefix; and every piece after one that ends inside "8=FIX".
MCStreams ==
  {p \o Message : p \in Pieces}
    \cup {Message \o p : p \in Pieces}
    \cup {<<120, 56>> \o p : p \in Pieces}
    \cup {p \o <<120>> \o Message \o <<56, 61, 70>> : p \in Pieces}
    \cup {Begin \o BodyLength(<<57, 57>>) \o Message \o Message \o <<120>>}

\* For liveness, every piece before a message.
LiveStreams == {p \o Message : p \in Pieces}
=============================================================================
