------------------------- MODULE MessageStreamProofs -------------------------
(***************************************************************************)
(* MessageStream, for every stream, chunking and cap: its type invariant,  *)
(* that its buffer is exactly the unread bytes, that it waits for more     *)
(* only with a bounded buffer, that it implements FrameReader, and that    *)
(* the messages it hands out are those of an unbuffered reading.           *)
(***************************************************************************)
EXTENDS MessageStream, FramingProofs

LEMMA StreamType ==
  ASSUME stream \in Streams
  PROVE  stream \in Seq(Byte) /\ Len(stream) \in Nat
<1>1. stream \in Seq(Byte)
  BY StreamAssumption
<1> QED BY <1>1

\* The inductive invariant: buf is what lies between consumed and fed.
IInv == TypeOK /\ BufferIsUnread

\* The buffer is a piece of the stream, so that what scan says of the one is
\* true of the other.
LEMMA BufferExtends ==
  ASSUME IInv
  PROVE  /\ stream \in Seq(Byte) /\ consumed \in Nat /\ fed \in Nat
         /\ consumed <= fed /\ fed <= Len(stream)
         /\ buf \in Seq(Byte) /\ Len(buf) = fed - consumed
         /\ Extends(stream, consumed, buf)
<1>1. /\ stream \in Seq(Byte) /\ Len(stream) \in Nat
      /\ consumed \in Nat /\ fed \in Nat /\ consumed <= fed /\ fed <= Len(stream)
      /\ buf = Slice(stream, consumed, fed)
  BY StreamType DEF IInv, TypeOK, BufferIsUnread
<1>2. \A i, j \in Nat : i <= j /\ j <= Len(stream) =>
        /\ Slice(stream, i, j) \in Seq(Byte)
        /\ Len(Slice(stream, i, j)) = j - i
        /\ \A k \in 1 .. j - i : Slice(stream, i, j)[k] = stream[i + k]
  BY <1>1, SliceProperties, Zenon
<1>3. /\ buf \in Seq(Byte) /\ Len(buf) = fed - consumed
      /\ \A k \in 1 .. fed - consumed : buf[k] = stream[consumed + k]
  BY <1>1, <1>2
<1>4. Extends(stream, consumed, buf)
  BY <1>1, <1>3 DEF Extends
<1> QED BY <1>1, <1>3, <1>4

LEMMA InitInv == Init => IInv
<1> SUFFICES ASSUME Init PROVE IInv
  OBVIOUS
<1>1. /\ stream \in Streams /\ fed = 0 /\ buf = <<>> /\ consumed = 0
      /\ outcomes = <<>> /\ returned = "none"
  BY DEF Init
<1>2. stream \in Seq(Byte) /\ Len(stream) \in Nat
  BY <1>1, StreamType
<1>3. TypeOK
  BY <1>1, <1>2 DEF TypeOK
<1>4. Slice(stream, 0, 0) = <<>>
  <2>1. \A i, j \in Nat : i <= j /\ j <= Len(stream) =>
          /\ Slice(stream, i, j) \in Seq(Byte)
          /\ Len(Slice(stream, i, j)) = j - i
          /\ \A k \in 1 .. j - i : Slice(stream, i, j)[k] = stream[i + k]
    BY <1>2, SliceProperties, Zenon
  <2>2. Slice(stream, 0, 0) \in Seq(Byte) /\ Len(Slice(stream, 0, 0)) = 0
    BY <1>2, <2>1
  <2> QED BY <2>2
<1> QED BY <1>1, <1>3, <1>4 DEF IInv, BufferIsUnread

\* Where the reader stands is what has been fed less what is in the buffer,
\* before a step and after it.
LEMMA FrontOfBuffer ==
  ASSUME IInv
  PROVE  fed - Len(buf) = consumed
<1> QED BY BufferExtends

LEMMA FrontAfterTake ==
  ASSUME IInv, NEW n \in 1 .. Len(buf), NEW kind, NEW reason, Take(kind, reason, n)
  PROVE  /\ (fed - Len(buf))' = consumed + n
         /\ outcomes' = Append(outcomes, Reader!Entry(kind, reason, consumed, consumed + n))
         /\ stream' = stream
<1>1. /\ consumed \in Nat /\ fed \in Nat /\ consumed <= fed
      /\ buf \in Seq(Byte) /\ Len(buf) = fed - consumed
  BY BufferExtends
<1>2. /\ buf' = Slice(buf, n, Len(buf)) /\ fed' = fed /\ stream' = stream
      /\ outcomes' = Append(outcomes, Reader!Entry(kind, reason, consumed, consumed + n))
  BY DEF Take, split_to
<1>3. \A i, j \in Nat : i <= j /\ j <= Len(buf) => Len(Slice(buf, i, j)) = j - i
  BY <1>1, SliceProperties, Zenon
<1>4. n \in Nat /\ Len(buf) \in Nat /\ n <= Len(buf) /\ Len(buf) <= Len(buf)
  BY <1>1
<1>5. Len(Slice(buf, n, Len(buf))) = Len(buf) - n
  BY <1>3, <1>4, Zenon
<1>6. Len(buf') = Len(buf) - n
  BY <1>2, <1>5
<1> QED BY <1>1, <1>2, <1>4, <1>6

\* Taking the bytes up to an offset is consuming them.
LEMMA TakeConsumes ==
  ASSUME IInv, NEW n \in 1 .. Len(buf), NEW kind, NEW reason, Take(kind, reason, n)
  PROVE  Reader!Consume(kind, reason, consumed + n)
<1>1. /\ (fed - Len(buf))' = consumed + n
      /\ outcomes' = Append(outcomes, Reader!Entry(kind, reason, consumed, consumed + n))
      /\ stream' = stream
  BY FrontAfterTake
<1>2. fed - Len(buf) = consumed
  BY FrontOfBuffer
<1> QED BY <1>1, <1>2 DEF Reader!Consume

\* A step of next_message either waits or takes at least a byte off the
\* buffer; and then it is a step of the unbuffered reader.
LEMMA NextMessageStep ==
  ASSUME IInv, next_message
  PROVE  \/ NextIsIncomplete(scan(buf)) /\ scan(buf) = Incomplete
         \/ /\ \E n \in 1 .. Len(buf), kind \in Reader!OutcomeKind,
                   reason \in GarbledReason \cup {"None"} : Take(kind, reason, n)
            /\ Reader!ReaderNext
<1>1. /\ stream \in Seq(Byte) /\ consumed \in Nat /\ fed \in Nat
      /\ consumed <= fed /\ fed <= Len(stream)
      /\ buf \in Seq(Byte) /\ Len(buf) = fed - consumed
      /\ Extends(stream, consumed, buf)
  BY BufferExtends
<1> DEFINE scanned == scan(buf)
<1>2. NextIsMessage(scanned) \/ NextIsGarbled(scanned) \/ NextIsIncomplete(scanned)
  BY DEF next_message
<1>3. \A reason, n : /\ Garbled(reason, n).kind = "Garbled"
                    /\ Garbled(reason, n).reason = reason
                    /\ Garbled(reason, n).skipped = n
  BY DEF Garbled
<1>4. Incomplete.kind = "Incomplete"
  BY DEF Incomplete
<1>5. ASSUME NEW reason \in StructuralReason, NEW n \in 1 .. Len(buf),
             scanned = Garbled(reason, n),
             \A q \in BeginStringEnds(consumed) : \A r \in BodyLengthEnds(q) :
               ~IsFrame(stream, consumed, q, r) /\ ~IsOpenFrame(stream, consumed, q, r),
             \A i \in consumed + 1 .. consumed + n - 1 :
               ~Matches(stream, i, BEGIN_STRING_PREFIX)
      PROVE  Take("Garbled", reason, n) /\ Reader!ReaderNext
  <2>1. scanned.kind = "Garbled" /\ scanned.reason = reason /\ scanned.skipped = n
    <3> HIDE DEF scanned
    <3> QED BY <1>3, <1>5
  <2>2. NextIsGarbled(scanned)
    <3> HIDE DEF scanned
    <3> QED BY <1>2, <2>1 DEF NextIsMessage, NextIsIncomplete
  <2>3. Take("Garbled", reason, n)
    <3> HIDE DEF scanned
    <3> QED BY <2>1, <2>2 DEF NextIsGarbled
  <2>4. consumed + n \in consumed + 1 .. Len(stream)
    BY <1>1
  <2>5. Reader!Consume("Garbled", reason, consumed + n)
    BY <2>3, TakeConsumes
  <2>6. \A i \in consumed + 1 .. consumed + n - 1 : ~Matches(stream, i, BEGIN_STRING_PREFIX)
    BY <1>5
  <2>7. \A q \in BeginStringEnds(consumed) : \A r \in BodyLengthEnds(q) :
          ~IsFrame(stream, consumed, q, r) /\ ~IsOpenFrame(stream, consumed, q, r)
    BY <1>5
  <2>8. Reader!Skip
    <3> HIDE DEF scanned
    <3>1. ASSUME NEW to \in consumed + 1 .. Len(stream),
                 Reader!Consume("Garbled", reason, to),
                 \A i \in consumed + 1 .. to - 1 : ~Matches(stream, i, BEGIN_STRING_PREFIX)
          PROVE  Reader!Skip
      BY <2>7, <3>1, FrontOfBuffer DEF Reader!Skip, FrameMayStart
    <3>2. PICK to \in consumed + 1 .. Len(stream) : to = consumed + n
      BY <2>4
    <3>3. Reader!Consume("Garbled", reason, to)
      BY <2>5, <3>2
    <3>4. \A i \in consumed + 1 .. to - 1 : ~Matches(stream, i, BEGIN_STRING_PREFIX)
      BY <1>1, <2>6, <3>2
    <3> QED BY <3>1, <3>3, <3>4
  <2> QED BY <2>3, <2>8 DEF Reader!ReaderNext
<1>6. ASSUME NEW n \in 1 .. Len(buf), NEW q \in BeginStringEnds(consumed),
             NEW r \in BodyLengthEnds(q),
             IsFrame(stream, consumed, q, r), FrameEnd(stream, q, r) = consumed + n,
             ~IsMessage(stream, consumed, q, r),
             NEW reason \in PostStructuralReason, scanned = Garbled(reason, n)
      PROVE  Take("Garbled", reason, n) /\ Reader!ReaderNext
  <2>1. scanned.kind = "Garbled" /\ scanned.reason = reason /\ scanned.skipped = n
    <3> HIDE DEF scanned
    <3> QED BY <1>3, <1>6
  <2>2. NextIsGarbled(scanned)
    <3> HIDE DEF scanned
    <3> QED BY <1>2, <2>1 DEF NextIsMessage, NextIsIncomplete
  <2>3. Take("Garbled", reason, n)
    <3> HIDE DEF scanned
    <3> QED BY <2>1, <2>2 DEF NextIsGarbled
  <2>4. Reader!Consume("Garbled", reason, FrameEnd(stream, q, r))
    BY <1>6, <2>3, TakeConsumes
  <2>5. Reader!Discard
    <3> HIDE DEF scanned
    <3> QED BY <1>6, <2>4, FrontOfBuffer, Zenon DEF Reader!Discard
  <2> QED BY <2>3, <2>5 DEF Reader!ReaderNext
<1>7. ASSUME NEW n \in 1 .. Len(buf), NEW q \in BeginStringEnds(consumed),
             NEW r \in BodyLengthEnds(q),
             FrameEnd(stream, q, r) = consumed + n,
             IsMessage(stream, consumed, q, r),
             scanned.kind = "Frame", scanned.len = n
      PROVE  Take("Message", "None", n) /\ Reader!ReaderNext
  <2>1. NextIsMessage(scanned)
    <3> HIDE DEF scanned
    <3> QED BY <1>2, <1>7 DEF NextIsGarbled, NextIsIncomplete
  <2>2. Take("Message", "None", n)
    <3> HIDE DEF scanned
    <3> QED BY <1>7, <2>1 DEF NextIsMessage
  <2>3. Reader!Consume("Message", "None", FrameEnd(stream, q, r))
    BY <1>7, <2>2, TakeConsumes
  <2>4. Reader!Deliver
    <3> HIDE DEF scanned
    <3> QED BY <1>7, <2>3, FrontOfBuffer, Zenon DEF Reader!Deliver
  <2> QED BY <2>2, <2>4 DEF Reader!ReaderNext
<1>8. ASSUME scanned = Incomplete
      PROVE  NextIsIncomplete(scanned)
  <2> HIDE DEF scanned
  <2> QED BY <1>2, <1>4, <1>8 DEF NextIsMessage, NextIsGarbled
<1>9. StructuralReason \subseteq GarbledReason /\ PostStructuralReason \subseteq GarbledReason
  BY DEF GarbledReason
<1>10. "Garbled" \in Reader!OutcomeKind /\ "Message" \in Reader!OutcomeKind
  BY DEF Reader!OutcomeKind
<1> HIDE DEF scanned
<1>11. \/ \E reason \in StructuralReason, n \in 1 .. Len(buf) :
            /\ scanned = Garbled(reason, n)
            /\ \A q \in BeginStringEnds(consumed) : \A r \in BodyLengthEnds(q) :
                  ~IsFrame(stream, consumed, q, r) /\ ~IsOpenFrame(stream, consumed, q, r)
            /\ \A i \in consumed + 1 .. consumed + n - 1 :
                  ~Matches(stream, i, BEGIN_STRING_PREFIX)
       \/ scanned = Incomplete
       \/ \E n \in 1 .. Len(buf) :
          \E q \in BeginStringEnds(consumed) : \E r \in BodyLengthEnds(q) :
            /\ IsFrame(stream, consumed, q, r) /\ FrameEnd(stream, q, r) = consumed + n
            /\ \/ /\ ~IsMessage(stream, consumed, q, r)
                  /\ \E reason \in PostStructuralReason : scanned = Garbled(reason, n)
               \/ /\ IsMessage(stream, consumed, q, r)
                  /\ scanned.kind = "Frame" /\ scanned.len = n
  BY <1>1, ScanIsRight, Zenon DEF scanned
<1>12. CASE \E reason \in StructuralReason, n \in 1 .. Len(buf) :
            /\ scanned = Garbled(reason, n)
            /\ \A q \in BeginStringEnds(consumed) : \A r \in BodyLengthEnds(q) :
                  ~IsFrame(stream, consumed, q, r) /\ ~IsOpenFrame(stream, consumed, q, r)
            /\ \A i \in consumed + 1 .. consumed + n - 1 :
                  ~Matches(stream, i, BEGIN_STRING_PREFIX)
  BY <1>5, <1>9, <1>10, <1>12, Zenon
<1>13. CASE scanned = Incomplete
  BY <1>8, <1>13, Zenon DEF scanned
<1>14. CASE \E n \in 1 .. Len(buf) :
          \E q \in BeginStringEnds(consumed) : \E r \in BodyLengthEnds(q) :
            /\ IsFrame(stream, consumed, q, r) /\ FrameEnd(stream, q, r) = consumed + n
            /\ \/ /\ ~IsMessage(stream, consumed, q, r)
                  /\ \E reason \in PostStructuralReason : scanned = Garbled(reason, n)
               \/ /\ IsMessage(stream, consumed, q, r)
                  /\ scanned.kind = "Frame" /\ scanned.len = n
  <2>1. CASE \E n \in 1 .. Len(buf), reason \in PostStructuralReason :
               Take("Garbled", reason, n) /\ Reader!ReaderNext
    BY <1>9, <1>10, <2>1, Zenon
  <2>2. CASE \E n \in 1 .. Len(buf) : Take("Message", "None", n) /\ Reader!ReaderNext
    BY <1>10, <2>2, Zenon
  <2> QED BY <1>6, <1>7, <1>14, <2>1, <2>2, Zenon
<1> QED BY <1>11, <1>12, <1>13, <1>14, Zenon

\* feed keeps the invariant: what it appends is what follows the buffer.
LEMMA FeedInv ==
  ASSUME IInv, NEW n \in Chunks, feed(n)
  PROVE  IInv' /\ UNCHANGED Reader!rvars
<1>1. /\ stream \in Seq(Byte) /\ consumed \in Nat /\ fed \in Nat /\ Len(stream) \in Nat
      /\ consumed <= fed /\ fed <= Len(stream) /\ n \in Nat
  BY BufferExtends, StreamAssumption
<1>2. PICK upto \in Nat : upto = Lesser(fed + n, Len(stream))
  BY <1>1 DEF Lesser
<1>3. fed <= upto /\ upto <= Len(stream)
  BY <1>1, <1>2 DEF Lesser
<1>4. /\ fed' = upto /\ buf' = buf \o Slice(stream, fed, upto)
      /\ UNCHANGED <<stream, consumed, outcomes, returned>>
  BY <1>2 DEF feed
<1>5. buf' = Slice(stream, consumed, upto)
  <2>1. Slice(stream, consumed, fed) \o Slice(stream, fed, upto) = Slice(stream, consumed, upto)
    BY <1>1, <1>3, SliceConcat
  <2> QED BY <1>4, <2>1 DEF IInv, BufferIsUnread
<1>6. Slice(stream, consumed, upto) \in Seq(Byte)
  <2>1. \A i, j \in Nat : i <= j /\ j <= Len(stream) =>
          /\ Slice(stream, i, j) \in Seq(Byte)
          /\ Len(Slice(stream, i, j)) = j - i
          /\ \A k \in 1 .. j - i : Slice(stream, i, j)[k] = stream[i + k]
    BY <1>1, SliceProperties, Zenon
  <2> QED BY <1>1, <1>3, <2>1
<1>7. TypeOK'
  BY <1>1, <1>3, <1>4, <1>5, <1>6 DEF IInv, TypeOK
<1>8. BufferIsUnread'
  BY <1>4, <1>5 DEF BufferIsUnread
<1>9. fed - Len(buf) = consumed /\ (fed - Len(buf))' = consumed
  <2>1. \A i, j \in Nat : i <= j /\ j <= Len(stream) => Len(Slice(stream, i, j)) = j - i
    BY <1>1, SliceProperties, Zenon
  <2>2. /\ consumed \in Nat /\ upto \in Nat
        /\ consumed <= upto /\ upto <= Len(stream)
    BY <1>1, <1>2, <1>3
  <2>3. Len(Slice(stream, consumed, upto)) = upto - consumed
    BY <2>1, <2>2, Zenon
  <2>4. Len(buf') = upto - consumed
    BY <1>5, <2>3
  <2> QED BY <1>1, <1>2, <1>4, <2>4, FrontOfBuffer
<1>10. UNCHANGED Reader!rvars
  BY <1>4, <1>9 DEF Reader!rvars
<1> QED BY <1>7, <1>8, <1>10 DEF IInv

\* So does taking bytes off the front of the buffer.
LEMMA TakenInv ==
  ASSUME IInv, NEW n \in 1 .. Len(buf), NEW kind \in Reader!OutcomeKind,
         NEW reason \in GarbledReason \cup {"None"}, Take(kind, reason, n)
  PROVE  IInv'
<1>1. /\ stream \in Seq(Byte) /\ consumed \in Nat /\ fed \in Nat /\ Len(stream) \in Nat
      /\ consumed <= fed /\ fed <= Len(stream)
      /\ Len(buf) = fed - consumed /\ buf = Slice(stream, consumed, fed)
  BY BufferExtends DEF IInv, BufferIsUnread
<1>2. n \in Nat /\ n <= fed - consumed /\ consumed + n \in Nat /\ consumed + n <= fed
  BY <1>1
<1>3. /\ buf' = Slice(buf, n, Len(buf)) /\ consumed' = consumed + n
      /\ outcomes' = Append(outcomes, Reader!Entry(kind, reason, consumed, consumed + n))
      /\ returned' = kind /\ stream' = stream /\ fed' = fed
  BY DEF Take, split_to
<1>4. buf' = Slice(stream, consumed + n, fed)
  <2>1. Slice(Slice(stream, consumed, fed), n, fed - consumed) = Slice(stream, consumed + n, fed)
    BY <1>1, <1>2, SliceRest
  <2> QED BY <1>1, <1>3, <2>1
<1>5. Slice(stream, consumed + n, fed) \in Seq(Byte)
  <2>1. \A i, j \in Nat : i <= j /\ j <= Len(stream) =>
          /\ Slice(stream, i, j) \in Seq(Byte)
          /\ Len(Slice(stream, i, j)) = j - i
          /\ \A k \in 1 .. j - i : Slice(stream, i, j)[k] = stream[i + k]
    BY <1>1, SliceProperties, Zenon
  <2> QED BY <1>1, <1>2, <2>1
<1>6. TypeOK'
  <2>1. Reader!Entry(kind, reason, consumed, consumed + n)
          \in [kind : Reader!OutcomeKind, reason : GarbledReason \cup {"None"}, from : Nat, to : Nat]
    BY <1>1, <1>2 DEF Reader!Entry
  <2>2. outcomes' \in Seq([kind : Reader!OutcomeKind, reason : GarbledReason \cup {"None"},
                           from : Nat, to : Nat])
    BY <1>3, <2>1 DEF IInv, TypeOK
  <2> QED BY <1>1, <1>2, <1>3, <1>4, <1>5, <2>2 DEF IInv, TypeOK
<1>7. BufferIsUnread'
  BY <1>3, <1>4 DEF BufferIsUnread
<1> QED BY <1>6, <1>7 DEF IInv

LEMMA NextInv == IInv /\ [Next]_vars => IInv'
<1> SUFFICES ASSUME IInv, [Next]_vars PROVE IInv'
  OBVIOUS
<1>1. ASSUME NEW n \in Chunks, feed(n) PROVE IInv'
  BY <1>1, FeedInv
<1>2. CASE next_message
  <2>1. CASE NextIsIncomplete(scan(buf))
    <3>1. UNCHANGED <<stream, fed, buf, consumed, outcomes>> /\ returned' = "Incomplete"
      BY <2>1 DEF NextIsIncomplete
    <3> QED BY <3>1 DEF IInv, TypeOK, BufferIsUnread
  <2>2. CASE \E n \in 1 .. Len(buf), kind \in Reader!OutcomeKind,
               reason \in GarbledReason \cup {"None"} : Take(kind, reason, n)
    BY <2>2, TakenInv
  <2> QED BY <1>2, <2>1, <2>2, NextMessageStep
<1>3. CASE UNCHANGED vars
  BY <1>3 DEF vars, IInv, TypeOK, BufferIsUnread
<1> QED BY <1>1, <1>2, <1>3 DEF Next

-----------------------------------------------------------------------------
LEMMA Invariance == Spec => []IInv
<1> QED BY InitInv, NextInv, PTL DEF Spec

\* The state of a MessageStream is always of its type: in particular what has
\* been handed out never runs ahead of what has been fed.
THEOREM TypeCorrect == Spec => []TypeOK
<1>1. IInv => TypeOK
  BY DEF IInv
<1> QED BY <1>1, Invariance, PTL

\* feed and split_to together keep the buffer equal to the unread bytes, for
\* every chunking of every stream.
THEOREM NoByteLost == Spec => []BufferIsUnread
<1>1. IInv => BufferIsUnread
  BY DEF IInv
<1> QED BY <1>1, Invariance, PTL

\* next_message answers Incomplete only while the buffer holds less than a
\* frame or a preamble can take, whatever the peer sends.
THEOREM WaitIsBounded == Spec => []BoundedWait
<1>1. IInv => BoundedWait
  <2> SUFFICES ASSUME IInv, scan(buf).kind = "Incomplete" PROVE Len(buf) < WaitBound
    BY DEF BoundedWait
  <2>1. /\ stream \in Seq(Byte) /\ consumed \in Nat
        /\ buf \in Seq(Byte) /\ Extends(stream, consumed, buf)
    BY BufferExtends
  <2>2. /\ \A reason, n : Garbled(reason, n).kind = "Garbled"
        /\ Len(buf) \in Nat /\ max_frame_size \in Nat
        /\ MAX_BEGIN_STRING_LEN \in Nat /\ MAX_BODY_LENGTH_DIGITS \in Nat
    BY <2>1, FramingAssumption DEF Garbled
  <2>3. \/ \E reason \in StructuralReason, n \in 1 .. Len(buf) :
              /\ scan(buf) = Garbled(reason, n)
              /\ \A q \in BeginStringEnds(consumed) : \A r \in BodyLengthEnds(q) :
                    ~IsFrame(stream, consumed, q, r) /\ ~IsOpenFrame(stream, consumed, q, r)
              /\ \A i \in consumed + 1 .. consumed + n - 1 :
                    ~Matches(stream, i, BEGIN_STRING_PREFIX)
        \/ /\ scan(buf) = Incomplete
           /\ \/ Len(buf) < max_frame_size
              \/ Len(buf) < MAX_BEGIN_STRING_LEN + 4 + MAX_BODY_LENGTH_DIGITS
        \/ \E n \in 1 .. Len(buf) :
           \E q \in BeginStringEnds(consumed) : \E r \in BodyLengthEnds(q) :
             /\ IsFrame(stream, consumed, q, r) /\ FrameEnd(stream, q, r) = consumed + n
             /\ \/ /\ ~IsMessage(stream, consumed, q, r)
                   /\ \E reason \in PostStructuralReason : scan(buf) = Garbled(reason, n)
                \/ /\ IsMessage(stream, consumed, q, r)
                   /\ scan(buf).kind = "Frame" /\ scan(buf).len = n
    BY <2>1, ScanIsRight, Zenon
  <2>4. \/ Len(buf) < max_frame_size
        \/ Len(buf) < MAX_BEGIN_STRING_LEN + 4 + MAX_BODY_LENGTH_DIGITS
    BY <2>2, <2>3
  <2> QED BY <2>2, <2>4 DEF WaitBound
<1> QED BY <1>1, Invariance, PTL

\* MessageStream implements the unbuffered reader: the outcomes it returns are
\* ones that reading the complete stream at the same place gives, whatever
\* chunks the stream came in and whenever next_message was called.
THEOREM Implements == Spec => ReaderSpec
<1>1. Init => Reader!ReaderInit
  <2>1. ASSUME Init PROVE fed - Len(buf) = 0
    <3>1. fed = 0 /\ buf = <<>>
      BY <2>1 DEF Init
    <3>2. Len(<<>>) = 0 /\ 0 - 0 = 0
      OBVIOUS
    <3> QED BY <3>1, <3>2, Zenon
  <2> QED BY <2>1, StreamAssumption DEF Init, Reader!ReaderInit
<1>2. IInv /\ [Next]_vars => [Reader!ReaderNext]_(Reader!rvars)
  <2> SUFFICES ASSUME IInv, [Next]_vars PROVE [Reader!ReaderNext]_(Reader!rvars)
    OBVIOUS
  <2>1. ASSUME NEW n \in Chunks, feed(n) PROVE UNCHANGED Reader!rvars
    BY <2>1, FeedInv
  <2>2. CASE next_message
    <3>1. NextIsIncomplete(scan(buf)) => UNCHANGED Reader!rvars
      BY DEF NextIsIncomplete, Reader!rvars
    <3> QED BY <2>2, <3>1, NextMessageStep
  <2>3. CASE UNCHANGED vars
    BY <2>3 DEF vars, Reader!rvars
  <2> QED BY <2>1, <2>2, <2>3 DEF Next
<1> QED BY <1>1, <1>2, Invariance, PTL DEF Spec, ReaderSpec, Reader!ReaderSpec

-----------------------------------------------------------------------------
(* The unbuffered reading of a stream, MessagesFrom. *)

\* A frame ends beyond where it starts and inside the stream; a message is a
\* frame.
LEMMA FrameEndsInside ==
  ASSUME NEW s \in Seq(Byte), NEW p \in Nat,
         NEW q \in BeginStringEnds(p), NEW r \in BodyLengthEnds(q), IsFrame(s, p, q, r)
  PROVE  FrameEnd(s, q, r) \in p + 1 .. Len(s)
<1>1. /\ q \in Nat /\ r \in Nat /\ q > p /\ r > q + 3
  BY FramingAssumption DEF BeginStringEnds, BodyLengthEnds
<1>2. /\ Preamble(s, p, q, r) /\ FrameEnd(s, q, r) <= Len(s)
  BY DEF IsFrame
<1>3. r < Len(s) /\ \A i \in q + 3 .. r - 1 : At(s, i) \in Digit
  BY <1>2 DEF Preamble
<1>4. q + 3 \in Nat /\ q + 3 <= r /\ r <= Len(s) /\ Len(s) \in Nat
  BY <1>1, <1>3
<1>5. Slice(s, q + 3, r) \in Seq(Digit)
  BY <1>1, <1>3, <1>4, SliceDigits
<1>6. Number(Slice(s, q + 3, r)) \in Nat
  BY <1>5, NumberIsNat
<1>7. FrameEnd(s, q, r) = r + 1 + Number(Slice(s, q + 3, r)) + 7
  BY DEF FrameEnd, CHECKSUM_FIELD_LEN
<1> QED BY <1>1, <1>2, <1>4, <1>6, <1>7

\* What Preambles holds.
LEMMA PreamblesAre ==
  \A s, p, q, r :
    <<q, r>> \in Preambles(s, p) <=>
      q \in BeginStringEnds(p) /\ r \in BodyLengthEnds(q) /\ Preamble(s, p, q, r)
<1> TAKE s, p, q, r
<1>1. <<q, r>>[1] = q /\ <<q, r>>[2] = r
  OBVIOUS
<1>2. ASSUME <<q, r>> \in Preambles(s, p)
      PROVE  q \in BeginStringEnds(p) /\ r \in BodyLengthEnds(q) /\ Preamble(s, p, q, r)
  <2>1. PICK b \in BeginStringEnds(p) : <<q, r>> \in {b} \X BodyLengthEnds(b)
    BY <1>2 DEF Preambles
  <2>2. q = b /\ r \in BodyLengthEnds(b)
    BY <2>1
  <2> QED BY <1>1, <1>2, <2>2 DEF Preambles
<1>3. ASSUME q \in BeginStringEnds(p), r \in BodyLengthEnds(q), Preamble(s, p, q, r)
      PROVE  <<q, r>> \in Preambles(s, p)
  <2>1. <<q, r>> \in {q} \X BodyLengthEnds(q)
    BY <1>3
  <2>2. <<q, r>> \in UNION {{b} \X BodyLengthEnds(b) : b \in BeginStringEnds(p)}
    BY <1>3, <2>1
  <2> QED BY <1>1, <1>3, <2>2 DEF Preambles
<1> QED BY <1>2, <1>3

LEMMA PreamblesArePairs ==
  ASSUME NEW s, NEW p, NEW x \in Preambles(s, p)
  PROVE  /\ x[1] \in BeginStringEnds(p) /\ x[2] \in BodyLengthEnds(x[1])
         /\ Preamble(s, p, x[1], x[2])
<1>1. PICK b \in BeginStringEnds(p) : x \in {b} \X BodyLengthEnds(b)
  BY DEF Preambles
<1>2. x[1] = b /\ x[2] \in BodyLengthEnds(b)
  BY <1>1
<1> QED BY <1>2 DEF Preambles

\* At a frame, the extents are those of that frame.
LEMMA OneFrame ==
  ASSUME NEW s \in Seq(Byte), NEW p \in Nat,
         NEW q \in BeginStringEnds(p), NEW r \in BodyLengthEnds(q), IsFrame(s, p, q, r)
  PROVE  /\ FrameEnds(s, p) = {FrameEnd(s, q, r)}
         /\ OpenEnds(s, p) = {}
         /\ MessageEnds(s, p) = IF IsMessage(s, p, q, r) THEN {FrameEnd(s, q, r)} ELSE {}
<1>1. Preamble(s, p, q, r) /\ FrameEnd(s, q, r) <= Len(s)
  BY DEF IsFrame
<1>2. Preambles(s, p) = {<<q, r>>}
  <2>1. <<q, r>> \in Preambles(s, p)
    BY <1>1, PreamblesAre
  <2>2. ASSUME NEW x \in Preambles(s, p) PROVE x = <<q, r>>
    <3>1. /\ x[1] \in BeginStringEnds(p) /\ x[2] \in BodyLengthEnds(x[1])
          /\ Preamble(s, p, x[1], x[2])
      BY PreamblesArePairs
    <3>2. x[1] = q /\ x[2] = r
      BY <1>1, <3>1, PreambleUnique
    <3>3. PICK b \in BeginStringEnds(p) : x \in {b} \X BodyLengthEnds(b)
      BY DEF Preambles
    <3> QED BY <3>2, <3>3
  <2> QED BY <2>1, <2>2
<1>3. <<q, r>>[1] = q /\ <<q, r>>[2] = r
  OBVIOUS
<1>4. FrameEnds(s, p) = {FrameEnd(s, q, r)}
  BY <1>2, <1>3, Zenon DEF FrameEnds
<1>5. MessageEnds(s, p) = IF IsMessage(s, p, q, r) THEN {FrameEnd(s, q, r)} ELSE {}
  BY <1>2, <1>3, Zenon DEF MessageEnds
<1>6. ~IsOpenFrame(s, p, q, r)
  <2>1. FrameEnd(s, q, r) \in p + 1 .. Len(s)
    BY FrameEndsInside
  <2> QED BY <2>1 DEF IsOpenFrame
<1>7. OpenEnds(s, p) = {}
  BY <1>2, <1>3, <1>6, Zenon DEF OpenEnds
<1> QED BY <1>4, <1>5, <1>7

\* Where no frame starts there are none.
LEMMA NoFrameEnds ==
  ASSUME NEW s, NEW p,
         \A q \in BeginStringEnds(p) : \A r \in BodyLengthEnds(q) :
           ~IsFrame(s, p, q, r) /\ ~IsOpenFrame(s, p, q, r)
  PROVE  FrameEnds(s, p) = {} /\ OpenEnds(s, p) = {} /\ MessageEnds(s, p) = {}
<1>1. ASSUME NEW x \in Preambles(s, p)
      PROVE  /\ ~IsFrame(s, p, x[1], x[2]) /\ ~IsOpenFrame(s, p, x[1], x[2])
             /\ ~IsMessage(s, p, x[1], x[2])
  BY PreamblesArePairs DEF IsMessage
<1>2. FrameEnds(s, p) = {}
  BY <1>1, Zenon DEF FrameEnds
<1>3. OpenEnds(s, p) = {}
  BY <1>1, Zenon DEF OpenEnds
<1>4. MessageEnds(s, p) = {}
  BY <1>1, Zenon DEF MessageEnds
<1> QED BY <1>2, <1>3, <1>4

LEMMA EndsInside ==
  ASSUME NEW s \in Seq(Byte), NEW p \in Nat
  PROVE  /\ FrameEnds(s, p) \subseteq p + 1 .. Len(s)
         /\ MessageEnds(s, p) \subseteq FrameEnds(s, p)
<1>1. ASSUME NEW x \in Preambles(s, p), IsFrame(s, p, x[1], x[2])
      PROVE  FrameEnd(s, x[1], x[2]) \in p + 1 .. Len(s)
  <2>1. x[1] \in BeginStringEnds(p) /\ x[2] \in BodyLengthEnds(x[1])
    BY PreamblesArePairs
  <2> QED BY <1>1, <2>1, FrameEndsInside
<1>2. FrameEnds(s, p) \subseteq p + 1 .. Len(s)
  BY <1>1, Zenon DEF FrameEnds
<1>3. \A x \in Preambles(s, p) : IsMessage(s, p, x[1], x[2]) => IsFrame(s, p, x[1], x[2])
  BY DEF IsMessage
<1>4. MessageEnds(s, p) \subseteq FrameEnds(s, p)
  BY <1>3, Zenon DEF MessageEnds, FrameEnds
<1> QED BY <1>2, <1>4

\* Where the reading goes on after offset p: always ahead.
After(s, p) == IF FrameEnds(s, p) # {} THEN Least(FrameEnds(s, p)) ELSE p + 1

LEMMA AfterIsAhead ==
  ASSUME NEW s \in Seq(Byte), NEW p \in 0 .. Len(s), p # Len(s)
  PROVE  After(s, p) \in p + 1 .. Len(s)
<1>1. p \in Nat /\ Len(s) \in Nat /\ p + 1 \in p + 1 .. Len(s)
  OBVIOUS
<1>2. FrameEnds(s, p) \subseteq p + 1 .. Len(s) /\ FrameEnds(s, p) \subseteq Nat
  BY <1>1, EndsInside
<1>3. FrameEnds(s, p) # {} => Least(FrameEnds(s, p)) \in FrameEnds(s, p)
  BY <1>2, LeastProperties
<1> QED BY <1>1, <1>2, <1>3, Zenon DEF After

\* f is the reading of s from each offset from n on.
IsReading(f, s, n) == f = [p \in n .. Len(s) |-> MessagesAt(s, p, f)]

\* What is read at an offset depends on what is read later only.
LEMMA LaterOnly ==
  ASSUME NEW s \in Seq(Byte), NEW p \in 0 .. Len(s), NEW f, NEW g,
         \A i \in p + 1 .. Len(s) : f[i] = g[i]
  PROVE  MessagesAt(s, p, f) = MessagesAt(s, p, g)
<1>1. CASE p = Len(s) \/ OpenEnds(s, p) # {}
  BY <1>1 DEF MessagesAt
<1>2. CASE ~(p = Len(s) \/ OpenEnds(s, p) # {})
  <2>1. f[After(s, p)] = g[After(s, p)]
    BY <1>2, AfterIsAhead
  <2> QED BY <2>1, Zenon DEF MessagesAt, After
<1> QED BY <1>1, <1>2

\* The recursive function of MessagesFrom exists: the shortest suffix of s
\* without a reading would follow one with a reading.
LEMMA ReadingExists ==
  ASSUME NEW s \in Seq(Byte)
  PROVE  \E f : IsReading(f, s, 0)
<1> DEFINE N == Len(s)
           T == {k \in 0 .. N : ~\E f : IsReading(f, s, N - k)}
<1>1. N \in Nat
  OBVIOUS
<1>2. ASSUME T # {} PROVE FALSE
  <2>1. PICK k \in T : \A m \in T : k <= m
    <3>1. T \subseteq Nat
      OBVIOUS
    <3> HIDE DEF T
    <3> QED BY <1>2, <3>1, LeastProperties
  <2>2. k \in 0 .. N /\ ~\E f : IsReading(f, s, N - k)
    OBVIOUS
  <2>3. CASE k = 0
    <3> DEFINE g == [p \in N .. N |-> {}]
    <3>1. ASSUME NEW p \in N .. N PROVE MessagesAt(s, p, g) = {}
      BY <3>1, <1>1 DEF MessagesAt
    <3>2. IsReading(g, s, N)
      BY <3>1 DEF IsReading
    <3> QED BY <2>2, <2>3, <3>2
  <2>4. CASE k # 0
    <3> DEFINE n == N - k
    <3>1. n \in 0 .. N - 1 /\ k - 1 \in 0 .. N /\ N - (k - 1) = n + 1 /\ k - 1 \notin T
      BY <1>1, <2>1, <2>2, <2>4
    <3>2. PICK f : IsReading(f, s, n + 1)
      BY <3>1
    <3> DEFINE g == [p \in n .. N |-> IF p = n THEN MessagesAt(s, n, f) ELSE f[p]]
    <3>3. \A i \in n + 1 .. N : f[i] = g[i]
      BY <3>1
    <3>4. ASSUME NEW p \in n .. N PROVE g[p] = MessagesAt(s, p, g)
      <4>1. p \in 0 .. N /\ \A i \in p + 1 .. N : f[i] = g[i]
        BY <3>1, <3>3
      <4>2. MessagesAt(s, p, f) = MessagesAt(s, p, g)
        <5> HIDE DEF g
        <5> QED BY <4>1, LaterOnly
      <4>3. g[p] = MessagesAt(s, p, f)
        <5>1. CASE p = n
          BY <5>1
        <5>2. CASE p # n
          <6>1. p \in n + 1 .. N /\ g[p] = f[p]
            BY <3>1, <5>2
          <6>2. f[p] = MessagesAt(s, p, f)
            <7> HIDE DEF g, n
            <7> QED BY <3>2, <6>1 DEF IsReading
          <6> QED BY <6>1, <6>2
        <5> QED BY <5>1, <5>2
      <4> QED BY <4>2, <4>3
    <3>5. IsReading(g, s, n)
      BY <3>4 DEF IsReading
    <3> QED BY <2>2, <3>5
  <2> QED BY <2>3, <2>4
<1>3. 0 \in Nat /\ N \in 0 .. N /\ N - N = 0
  BY <1>1
<1> QED BY <1>2, <1>3

\* So MessagesFrom(s) is what its definition says.
LEMMA MessagesFromDef ==
  ASSUME NEW s \in Seq(Byte)
  PROVE  \A p \in 0 .. Len(s) : MessagesFrom(s)[p] = MessagesAt(s, p, MessagesFrom(s))
<1> DEFINE from == CHOOSE f : IsReading(f, s, 0)
<1>1. IsReading(from, s, 0)
  BY ReadingExists
<1>2. MessagesFrom(s) = from
  BY DEF MessagesFrom, IsReading
<1>3. \A p \in 0 .. Len(s) : from[p] = MessagesAt(s, p, from)
  <2> HIDE DEF from
  <2> QED BY <1>1 DEF IsReading
<1> QED BY <1>2, <1>3

\* The messages from an offset on end behind it.
LEMMA MessagesAhead ==
  ASSUME NEW s \in Seq(Byte)
  PROVE  \A p \in 0 .. Len(s) : \A m \in MessagesFrom(s)[p] : m[2] \in p + 1 .. Len(s)
<1> DEFINE N == Len(s)
           from == MessagesFrom(s)
           T == {k \in 0 .. N : ~\A m \in from[N - k] : m[2] \in N - k + 1 .. N}
<1>1. N \in Nat
  OBVIOUS
<1>2. \A p \in 0 .. N : from[p] = MessagesAt(s, p, from)
  BY MessagesFromDef
<1> HIDE DEF from
<1>3. ASSUME T # {} PROVE FALSE
  <2>1. PICK k \in T : \A m \in T : k <= m
    <3>1. T \subseteq Nat
      OBVIOUS
    <3> HIDE DEF T
    <3> QED BY <1>3, <3>1, LeastProperties
  <2> DEFINE p == N - k
  <2>2. k \in 0 .. N /\ p \in 0 .. N
    OBVIOUS
  <2>3. PICK m \in from[p] : ~(m[2] \in p + 1 .. N)
    BY <2>1
  <2>4. m \in MessagesAt(s, p, from)
    BY <1>2, <2>2, <2>3
  <2>5. /\ p # N /\ \/ m \in {<<p, e>> : e \in MessageEnds(s, p)}
                    \/ m \in from[After(s, p)]
    <3> HIDE DEF p
    <3> QED BY <2>4, Zenon DEF MessagesAt, After
  <2>6. CASE m \in {<<p, e>> : e \in MessageEnds(s, p)}
    <3>1. p \in Nat
      BY <2>2
    <3>2. MessageEnds(s, p) \subseteq p + 1 .. N
      <4> HIDE DEF p
      <4> QED BY <3>1, EndsInside
    <3>3. PICK e \in MessageEnds(s, p) : m = <<p, e>>
      BY <2>6
    <3> QED BY <2>3, <3>2, <3>3
  <2>7. CASE m \in from[After(s, p)]
    <3> DEFINE a == After(s, p)
    <3>1. a \in p + 1 .. N
      <4> HIDE DEF p
      <4> QED BY <2>2, <2>5, AfterIsAhead
    <3> HIDE DEF a
    <3>2. N - a \in 0 .. N /\ N - (N - a) = a /\ N - a < k
      BY <1>1, <2>2, <3>1
    <3>3. N - a \notin T
      BY <2>1, <2>2, <3>2
    <3>4. \A x \in from[a] : x[2] \in a + 1 .. N
      BY <3>2, <3>3
    <3>5. m[2] \in a + 1 .. N
      BY <2>7, <3>4 DEF a
    <3> QED BY <2>2, <2>3, <3>1, <3>5
  <2> QED BY <2>5, <2>6, <2>7
<1>4. ASSUME NEW p \in 0 .. N, NEW m \in from[p] PROVE m[2] \in p + 1 .. N
  <2>1. N - p \in 0 .. N /\ N - (N - p) = p
    BY <1>1
  <2>2. N - p \notin T
    BY <1>3, Zenon
  <2> QED BY <2>1, <2>2
<1> QED BY <1>4 DEF from

\* Reading passes over offsets where no frame starts.
LEMMA NoFrameNoMessage ==
  ASSUME NEW s \in Seq(Byte), NEW p \in 0 .. Len(s) - 1, NEW to \in p + 1 .. Len(s),
         \A i \in p .. to - 1 : \A q \in BeginStringEnds(i) : \A r \in BodyLengthEnds(q) :
           ~IsFrame(s, i, q, r) /\ ~IsOpenFrame(s, i, q, r)
  PROVE  MessagesFrom(s)[p] = MessagesFrom(s)[to]
<1> DEFINE N == Len(s)
           from == MessagesFrom(s)
           T == {k \in Nat : p + k <= to /\ from[p + k] # from[p]}
<1>1. N \in Nat /\ p \in Nat /\ to \in Nat
  OBVIOUS
<1>2. \A i \in 0 .. N : from[i] = MessagesAt(s, i, from)
  BY MessagesFromDef
<1> HIDE DEF from
<1>3. ASSUME NEW i \in p .. to - 1 PROVE from[i] = from[i + 1]
  <2>1. FrameEnds(s, i) = {} /\ OpenEnds(s, i) = {} /\ MessageEnds(s, i) = {}
    BY NoFrameEnds
  <2>2. i \in 0 .. N /\ i # N
    BY <1>1
  <2>3. from[i] = MessagesAt(s, i, from)
    BY <1>2, <2>2
  <2>4. {<<i, e>> : e \in MessageEnds(s, i)} = {}
    BY <2>1
  <2> QED BY <2>1, <2>2, <2>3, <2>4 DEF MessagesAt
<1>4. ASSUME T # {} PROVE FALSE
  <2>1. PICK k \in T : \A m \in T : k <= m
    <3>1. T \subseteq Nat
      OBVIOUS
    <3> HIDE DEF T
    <3> QED BY <1>4, <3>1, LeastProperties
  <2>2. k \in Nat /\ p + k <= to /\ from[p + k] # from[p]
    OBVIOUS
  <2>3. k # 0
    BY <2>2, <1>1
  <2>4. k - 1 \in Nat /\ p + (k - 1) \in p .. to - 1 /\ p + (k - 1) + 1 = p + k /\ k - 1 \notin T
    BY <1>1, <2>1, <2>2, <2>3
  <2>5. from[p + (k - 1)] = from[p]
    BY <1>1, <2>4
  <2> QED BY <1>3, <2>2, <2>4, <2>5
<1>5. to - p \in Nat /\ p + (to - p) = to
  BY <1>1
<1>6. to - p \notin T
  BY <1>4
<1>7. from[to] = from[p]
  BY <1>5, <1>6
<1> QED BY <1>7 DEF from

-----------------------------------------------------------------------------
\* The inductive invariant: the messages of the stream are those delivered,
\* which end before the place the reader has come to, and those from there on.
ReadSoFar ==
  /\ MessagesOf(stream) = Delivered \cup MessagesFrom(stream)[consumed]
  /\ \A m \in Delivered : m[2] \in 0 .. consumed

CInv == IInv /\ ReadSoFar

\* The messages delivered after one more outcome.
LEMMA DeliveredAppend ==
  ASSUME IInv, NEW kind, NEW reason, NEW from, NEW to,
         outcomes' = Append(outcomes, Reader!Entry(kind, reason, from, to))
  PROVE  Delivered' = Delivered \cup (IF kind = "Message" THEN {<<from, to>>} ELSE {})
<1> DEFINE e == Reader!Entry(kind, reason, from, to)
           N == Len(outcomes)
<1>1. e.kind = kind /\ e.from = from /\ e.to = to
  BY DEF Reader!Entry
<1> HIDE DEF e
<1>2. N \in Nat
  BY DEF IInv, TypeOK
<1>3. /\ Len(outcomes') = N + 1 /\ outcomes'[N + 1] = e
      /\ \A i \in 1 .. N : outcomes'[i] = outcomes[i]
  BY DEF e, IInv, TypeOK
<1>4. ASSUME NEW m \in Delivered'
      PROVE  m \in Delivered \cup (IF kind = "Message" THEN {<<from, to>>} ELSE {})
  <2>1. PICK i \in 1 .. N + 1 : outcomes'[i].kind = "Message"
                                /\ m = <<outcomes'[i].from, outcomes'[i].to>>
    BY <1>3 DEF Delivered
  <2>2. CASE i = N + 1
    BY <1>1, <1>3, <2>1, <2>2
  <2>3. CASE i # N + 1
    <3>1. i \in 1 .. N
      BY <1>2, <2>3
    <3>2. m \in Delivered
      BY <1>3, <2>1, <3>1 DEF Delivered
    <3> QED BY <3>2
  <2> QED BY <2>2, <2>3
<1>5. ASSUME NEW m \in Delivered PROVE m \in Delivered'
  <2>1. PICK i \in 1 .. N : outcomes[i].kind = "Message"
                            /\ m = <<outcomes[i].from, outcomes[i].to>>
    BY DEF Delivered
  <2>2. i \in 1 .. Len(outcomes')
    BY <1>2, <1>3
  <2> QED BY <1>3, <2>1, <2>2 DEF Delivered
<1>6. kind = "Message" => <<from, to>> \in Delivered'
  <2>1. N + 1 \in 1 .. Len(outcomes')
    BY <1>2, <1>3
  <2> QED BY <1>1, <1>3, <2>1 DEF Delivered
<1> QED BY <1>4, <1>5, <1>6

LEMMA InitRead == Init => CInv
<1> SUFFICES ASSUME Init PROVE CInv
  OBVIOUS
<1>1. IInv
  BY InitInv
<1>2. Delivered = {}
  BY DEF Init, Delivered
<1>3. consumed = 0
  BY DEF Init
<1> QED BY <1>1, <1>2, <1>3 DEF CInv, ReadSoFar, MessagesOf

\* Passing a frame, which is delivered if it is a message.
LEMMA PassFrame ==
  ASSUME CInv, NEW q \in BeginStringEnds(consumed), NEW r \in BodyLengthEnds(q),
         IsFrame(stream, consumed, q, r), NEW kind, NEW reason,
         kind = "Message" <=> IsMessage(stream, consumed, q, r),
         Reader!Consume(kind, reason, FrameEnd(stream, q, r)),
         consumed' = FrameEnd(stream, q, r), stream' = stream
  PROVE  ReadSoFar'
<1> DEFINE e == FrameEnd(stream, q, r)
           from == MessagesFrom(stream)
<1>1. /\ stream \in Seq(Byte) /\ consumed \in Nat /\ consumed \in 0 .. Len(stream)
      /\ fed - Len(buf) = consumed
  <2>1. stream \in Seq(Byte) /\ consumed \in Nat /\ consumed \in 0 .. Len(stream)
    BY BufferExtends DEF CInv
  <2> QED BY <2>1, FrontOfBuffer DEF CInv
<1>2. e \in consumed + 1 .. Len(stream) /\ consumed # Len(stream)
  <2>1. e \in consumed + 1 .. Len(stream)
    BY <1>1, FrameEndsInside
  <2> QED BY <1>1, <2>1
<1>3. /\ FrameEnds(stream, consumed) = {e}
      /\ OpenEnds(stream, consumed) = {}
      /\ MessageEnds(stream, consumed) = IF kind = "Message" THEN {e} ELSE {}
  BY <1>1, OneFrame
<1>4. Least({e}) = e
  BY <1>1, <1>2 DEF Least
<1>5. from[consumed] = MessagesAt(stream, consumed, from)
  BY <1>1, MessagesFromDef
<1>6. {<<consumed, x>> : x \in MessageEnds(stream, consumed)}
        = IF kind = "Message" THEN {<<consumed, e>>} ELSE {}
  <2> HIDE DEF e
  <2> QED BY <1>3
<1>7. from[consumed] = (IF kind = "Message" THEN {<<consumed, e>>} ELSE {}) \cup from[e]
  <2> HIDE DEF e, from
  <2>1. {e} # {}
    OBVIOUS
  <2> QED BY <1>2, <1>3, <1>4, <1>5, <1>6, <2>1, Zenon DEF MessagesAt
<1>8. Delivered' = Delivered \cup (IF kind = "Message" THEN {<<consumed, e>>} ELSE {})
  <2>1. outcomes' = Append(outcomes, Reader!Entry(kind, reason, consumed, e))
    BY <1>1 DEF Reader!Consume
  <2> QED BY <2>1, DeliveredAppend DEF CInv
<1>9. MessagesOf(stream) = Delivered \cup from[consumed] /\ \A m \in Delivered : m[2] \in 0 .. consumed
  BY DEF CInv, ReadSoFar
<1>10. MessagesOf(stream)' = Delivered' \cup MessagesFrom(stream')[consumed']
  <2>1. MessagesOf(stream)' = MessagesOf(stream) /\ MessagesFrom(stream')[consumed'] = from[e]
    OBVIOUS
  <2> HIDE DEF e, from
  <2> QED BY <1>7, <1>8, <1>9, <2>1
<1>11. \A m \in Delivered' : m[2] \in 0 .. consumed'
  <2>1. consumed' = e
    OBVIOUS
  <2> HIDE DEF e, from
  <2> QED BY <1>1, <1>2, <1>8, <1>9, <2>1
<1> QED BY <1>10, <1>11 DEF ReadSoFar

\* Passing bytes where no frame starts.
LEMMA PassGap ==
  ASSUME CInv, Reader!Skip, consumed' = (fed - Len(buf))', stream' = stream
  PROVE  ReadSoFar'
<1> DEFINE from == MessagesFrom(stream)
<1>1. /\ stream \in Seq(Byte) /\ consumed \in Nat /\ consumed \in 0 .. Len(stream)
      /\ fed - Len(buf) = consumed
  <2>1. stream \in Seq(Byte) /\ consumed \in Nat /\ consumed \in 0 .. Len(stream)
    BY BufferExtends DEF CInv
  <2> QED BY <2>1, FrontOfBuffer DEF CInv
<1>2. PICK to \in consumed + 1 .. Len(stream), reason \in StructuralReason :
        /\ \A p \in consumed + 1 .. to - 1 : ~FrameMayStart(stream, p)
        /\ Reader!Consume("Garbled", reason, to)
  BY <1>1, Zenon DEF Reader!Skip
<1>3. \A q \in BeginStringEnds(consumed) : \A r \in BodyLengthEnds(q) :
         ~IsFrame(stream, consumed, q, r) /\ ~IsOpenFrame(stream, consumed, q, r)
  BY <1>1, Zenon DEF Reader!Skip
<1>4. ASSUME NEW i \in consumed .. to - 1, NEW q \in BeginStringEnds(i), NEW r \in BodyLengthEnds(q)
      PROVE  ~IsFrame(stream, i, q, r) /\ ~IsOpenFrame(stream, i, q, r)
  <2>1. CASE i = consumed
    BY <1>3, <2>1
  <2>2. CASE i # consumed
    <3>1. i \in consumed + 1 .. to - 1
      BY <1>1, <2>2
    <3>2. ~FrameMayStart(stream, i)
      BY <1>2, <3>1
    <3> QED BY <3>2 DEF FrameMayStart, IsFrame, IsOpenFrame, Preamble
  <2> QED BY <2>1, <2>2
<1>5. from[consumed] = from[to]
  <2>1. consumed \in 0 .. Len(stream) - 1
    BY <1>1
  <2> QED BY <1>1, <1>4, <2>1, NoFrameNoMessage
<1>6. consumed' = to
  BY <1>2 DEF Reader!Consume
<1>7. Delivered' = Delivered
  <2>1. outcomes' = Append(outcomes, Reader!Entry("Garbled", reason, consumed, to))
    BY <1>1, <1>2 DEF Reader!Consume
  <2>2. "Garbled" # "Message"
    OBVIOUS
  <2>3. Delivered' = Delivered \cup (IF "Garbled" = "Message" THEN {<<consumed, to>>} ELSE {})
    BY <2>1, DeliveredAppend DEF CInv
  <2> QED BY <2>2, <2>3
<1>8. MessagesOf(stream) = Delivered \cup from[consumed] /\ \A m \in Delivered : m[2] \in 0 .. consumed
  BY DEF CInv, ReadSoFar
<1>9. MessagesOf(stream)' = MessagesOf(stream) /\ MessagesFrom(stream')[consumed'] = from[to]
  BY <1>6
<1> HIDE DEF from
<1> QED BY <1>1, <1>2, <1>5, <1>6, <1>7, <1>8, <1>9 DEF ReadSoFar

LEMMA NextRead == CInv /\ [Next]_vars => CInv'
<1> SUFFICES ASSUME CInv, [Next]_vars, IInv' PROVE ReadSoFar'
  BY NextInv DEF CInv
<1>1. IInv
  BY DEF CInv
<1>2. ASSUME UNCHANGED <<stream, consumed, outcomes>> PROVE ReadSoFar'
  <2>1. ReadSoFar
    BY DEF CInv
  <2> QED BY <1>2, <2>1 DEF ReadSoFar, Delivered
<1>3. ASSUME NEW n \in Chunks, feed(n) PROVE ReadSoFar'
  BY <1>2, <1>3 DEF feed
<1>4. CASE next_message
  <2>1. CASE NextIsIncomplete(scan(buf))
    BY <1>2, <2>1 DEF NextIsIncomplete
  <2>2. CASE /\ \E n \in 1 .. Len(buf), kind \in Reader!OutcomeKind,
                   reason \in GarbledReason \cup {"None"} : Take(kind, reason, n)
             /\ Reader!ReaderNext
    <3>1. consumed' = (fed - Len(buf))' /\ stream' = stream
      BY <1>1, <2>2, FrontAfterTake DEF Take
    <3>2. fed - Len(buf) = consumed
      BY <1>1, FrontOfBuffer
    <3>3. CASE Reader!Deliver
      <4>1. PICK q \in BeginStringEnds(consumed) : \E r \in BodyLengthEnds(q) :
              /\ IsMessage(stream, consumed, q, r)
              /\ Reader!Consume("Message", "None", FrameEnd(stream, q, r))
        BY <3>2, <3>3, Zenon DEF Reader!Deliver
      <4>2. PICK r \in BodyLengthEnds(q) :
              /\ IsMessage(stream, consumed, q, r)
              /\ Reader!Consume("Message", "None", FrameEnd(stream, q, r))
        BY <4>1
      <4>3. IsFrame(stream, consumed, q, r)
        BY <4>2 DEF IsMessage
      <4>4. consumed' = FrameEnd(stream, q, r)
        BY <3>1, <4>2 DEF Reader!Consume
      <4> QED BY <3>1, <4>2, <4>3, <4>4, PassFrame
    <3>4. CASE Reader!Discard
      <4>1. PICK q \in BeginStringEnds(consumed) : \E r \in BodyLengthEnds(q) :
              /\ IsFrame(stream, consumed, q, r)
              /\ ~IsMessage(stream, consumed, q, r)
              /\ \E reason \in PostStructuralReason :
                   Reader!Consume("Garbled", reason, FrameEnd(stream, q, r))
        BY <3>2, <3>4, Zenon DEF Reader!Discard
      <4>2. PICK r \in BodyLengthEnds(q), reason \in PostStructuralReason :
              /\ IsFrame(stream, consumed, q, r)
              /\ ~IsMessage(stream, consumed, q, r)
              /\ Reader!Consume("Garbled", reason, FrameEnd(stream, q, r))
        BY <4>1
      <4>3. consumed' = FrameEnd(stream, q, r)
        BY <3>1, <4>2 DEF Reader!Consume
      <4>4. "Garbled" = "Message" <=> IsMessage(stream, consumed, q, r)
        BY <4>2
      <4> QED BY <3>1, <4>2, <4>3, <4>4, PassFrame
    <3>5. CASE Reader!Skip
      BY <3>1, <3>5, PassGap
    <3> QED BY <2>2, <3>3, <3>4, <3>5 DEF Reader!ReaderNext
  <2> QED BY <1>1, <1>4, <2>1, <2>2, NextMessageStep
<1>5. CASE UNCHANGED vars
  BY <1>2, <1>5 DEF vars
<1> QED BY <1>3, <1>4, <1>5 DEF Next

\* Whatever chunks the stream comes in and whenever next_message is called,
\* the messages handed out are at every moment exactly those that an
\* unbuffered reading of the whole stream finds up to the same place: no resync
\* loses a message, none is invented and none comes twice.
THEOREM ChunkingIsInvisible == Spec => []ChunkInvariant
<1>1. CInv => ChunkInvariant
  <2> SUFFICES ASSUME CInv PROVE ChunkInvariant
    OBVIOUS
  <2>1. stream \in Streams /\ stream \in Seq(Byte) /\ consumed \in 0 .. Len(stream)
    BY BufferExtends DEF CInv, IInv, TypeOK
  <2>2. Messages[stream] = Delivered \cup MessagesFrom(stream)[consumed]
    BY <2>1 DEF CInv, ReadSoFar, Messages
  <2>3. \A m \in Delivered : m[2] \in 0 .. consumed
    BY DEF CInv, ReadSoFar
  <2>4. \A m \in MessagesFrom(stream)[consumed] : m[2] \in consumed + 1 .. Len(stream)
    BY <2>1, MessagesAhead
  <2>5. \A m \in Delivered : m[2] <= consumed
    BY <2>1, <2>3
  <2>6. \A m \in MessagesFrom(stream)[consumed] : ~(m[2] <= consumed)
    BY <2>1, <2>4
  <2> QED BY <2>2, <2>5, <2>6, Zenon DEF ChunkInvariant
<1>2. Spec => []CInv
  BY InitRead, NextRead, PTL DEF Spec
<1> QED BY <1>1, <1>2, PTL
=============================================================================
