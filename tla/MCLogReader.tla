----------------------------- MODULE MCLogReader -----------------------------
(***************************************************************************)
(* Logs for LogReader: a prefix, a message in one of the ways it may be    *)
(* logged (whole, broken, cut, with data that looks like its surroundings) *)
(* and what follows it on the same line or the next.                       *)
(***************************************************************************)
EXTENDS PythonLog

Bar == 124
MCLengthTags == {7}

\* The digits of a number below 100.
Digits(n) == IF n < 10 THEN <<48 + n>> ELSE <<48 + (n \div 10), 48 + (n % 10)>>
Three(c) == <<48 + (c \div 100), 48 + ((c \div 10) % 10), 48 + (c % 10)>>

\* A message of the fields in body, separated by sep, with a right BodyLength
\* and CheckSum, up to the CheckSum's value.
Open(sep, body) ==
  LET s == BEGIN_STRING_PREFIX \o <<sep>> \o BODY_LENGTH_TAG \o Digits(Len(body))
             \o <<sep>> \o body
  IN  s \o CHECKSUM_TAG \o Three(calculate_checksum(s, sep))

MsgType(sep) == MSG_TYPE_TAG \o <<48, sep>>
Good(sep) == Open(sep, MsgType(sep)) \o <<sep>>

\* The same, with BodyLength's tag written "09".
ZeroTag(body) ==
  LET s == BEGIN_STRING_PREFIX \o <<Bar, 48>> \o BODY_LENGTH_TAG \o Digits(Len(body))
             \o <<Bar>> \o body
  IN  s \o CHECKSUM_TAG \o Three(calculate_checksum(s, Bar)) \o <<Bar>>

\* "8=FIX|"
Begin == BEGIN_STRING_PREFIX \o <<Bar>>
\* "7=3|8=", and a data field of three bytes: LF, "8" and "=".
Data == <<55, EQUALS, 51, Bar, 56, EQUALS, LF, 56, EQUALS, Bar>>
\* The same with a length that is wrong.
BadData == <<55, EQUALS, 52, Bar, 56, EQUALS, LF, 56, EQUALS, Bar>>
\* bytes with "^A" for each SOH.
Caret(s) ==
  LET text[n \in 0 .. Len(s)] ==
        IF n = 0 THEN <<>>
        ELSE text[n - 1] \o IF s[n] = SOH THEN <<CARET, LETTER_A>> ELSE <<s[n]>>
  IN  text[Len(s)]

Logged ==
  { Good(Bar),
    Good(SOH),
    Good(CARET),
    Caret(Good(SOH)),
    \* Nothing after the CheckSum value.
    Open(Bar, MsgType(Bar)),
    Caret(Open(SOH, MsgType(SOH))),
    \* No CheckSum; no BodyLength; a BodyLength that is no number, or wrong.
    Begin \o BODY_LENGTH_TAG \o <<53, Bar>> \o MsgType(Bar),
    Begin \o MsgType(Bar) \o CHECKSUM_TAG \o <<49, Bar>>,
    Begin \o BODY_LENGTH_TAG \o <<120, Bar>> \o CHECKSUM_TAG,
    Begin \o BODY_LENGTH_TAG \o <<54, Bar>> \o MsgType(Bar) \o CHECKSUM_TAG \o <<49, Bar>>,
    \* Data that holds a line break, and data whose length is wrong.
    Open(Bar, MsgType(Bar) \o Data) \o <<Bar>>,
    Begin \o Data \o CHECKSUM_TAG \o <<49, Bar>>,
    Begin \o BadData \o CHECKSUM_TAG \o <<49, Bar>>,
    \* A CheckSum that is wrong.
    Begin \o BODY_LENGTH_TAG \o <<53, Bar>> \o MsgType(Bar) \o CHECKSUM_TAG \o Three(0) \o <<Bar>>,
    \* BodyLength's tag written "09".
    ZeroTag(MsgType(Bar)),
    \* Longer than MAX_MESSAGE_LEN.
    Begin \o MsgType(Bar) \o [i \in 1 .. MAX_MESSAGE_LEN |-> 120],
    \* No start for longer than a prefix and a message.
    [i \in 1 .. MAX_PREFIX_LEN + MAX_MESSAGE_LEN + 16 |-> 120],
    \* Not quite a start.
    BEGIN_STRING_PREFIX \o <<LF>>,
    <<49>> \o Begin \o MsgType(Bar),
    Begin \o <<49, 49, 49, EQUALS>> }

Before == { <<>>, <<120, LF, 56, EQUALS>> }

After == { <<>>, <<LF>>, <<CR, LF>>, <<CR>>, <<CR, LF, 120>> \o Good(Bar),
           Good(SOH) }

\* A caller that leaves the separator to the reader, or says it is "|".
Detected(texts) == {[text |-> t, separator |-> None] : t \in texts}
Given(texts) == {[text |-> t, separator |-> Bar] : t \in texts}

\* A message whose last field before the CheckSum states a data length that
\* takes the CheckSum into the data: "7=8|8=x|10=ddd|".
LengthTagLogs ==
  Detected({Open(Bar, MsgType(Bar) \o <<55, EQUALS, 56, Bar, 56, EQUALS, 120, Bar>>)
              \o <<Bar>>})

\* "7=3|" and a text of three bytes, with a line break and without "=".
TextLogs ==
  Detected({Begin \o <<55, EQUALS, 51, Bar, 120, LF, 120, Bar>> \o MsgType(Bar)})

\* A log that ends in a CR: behind a message that fills all that is read of it
\* but for that CR, and behind data whose length is stated.
LastBreakLogs ==
  Detected({Open(Bar, MsgType(Bar) \o <<53, 56, EQUALS>>
                        \o [i \in 1 .. 9 |-> 120] \o <<Bar>>) \o <<CR>>,
            Begin \o <<55, EQUALS, 51, Bar, 56, EQUALS, 120, LF, 120, CR>>})

MCLogs ==
  Detected({m \o a : m \in Logged, a \in After})
    \cup Detected({b \o m \o a : b \in Before, m \in Logged,
                                a \in {<<CR>>, <<CR, LF>> \o Good(Bar)}})
    \cup Given({b \o m : b \in Before, m \in Logged})
    \cup TextLogs \cup LastBreakLogs
=============================================================================
