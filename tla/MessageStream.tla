---------------------------- MODULE MessageStream ----------------------------
(***************************************************************************)
(* MessageStream (stream.rs): bytes arrive in chunks of any size, and the  *)
(* caller takes outcomes off the front of the buffer whenever it likes.    *)
(*                                                                         *)
(* The stream the peer sends is fixed when a behaviour starts; fed counts  *)
(* the bytes of it that have been given to feed.  consumed and outcomes    *)
(* are history: the bytes taken off the buffer and what they were.  With   *)
(* what has been fed less what is in the buffer for the place where the    *)
(* reader stands, the stream implements FrameReader: feed is a step that   *)
(* changes nothing, and next_message one of the reader's or none.          *)
(***************************************************************************)
EXTENDS Framing

CONSTANTS
  Streams,   \* the byte streams a peer may send
  Chunks     \* the lengths of the chunks a caller may feed

ASSUME StreamAssumption ==
  /\ Streams \subseteq Seq(Byte)
  /\ Chunks \subseteq Nat \ {0}

VARIABLES
  stream,    \* every byte the peer sends
  fed,       \* how many of them have been given to feed
  buf,       \* MessageStream.buf
  consumed,  \* how many have been taken off its front
  outcomes,  \* what they were, in order
  returned   \* the outcome of the last call of next_message

vars == <<stream, fed, buf, consumed, outcomes, returned>>

Reader == INSTANCE FrameReader WITH consumed <- fed - Len(buf)

Init ==
  /\ stream \in Streams
  /\ fed = 0
  /\ buf = <<>>
  /\ consumed = 0
  /\ outcomes = <<>>
  /\ returned = "none"

\* MessageStream::feed with the next n bytes of the stream, or what is left.
feed(n) ==
  LET upto == Lesser(fed + n, Len(stream))
  IN  /\ fed < Len(stream)
      /\ fed' = upto
      /\ buf' = buf \o Slice(stream, fed, upto)
      /\ UNCHANGED <<stream, consumed, outcomes, returned>>

\* Fault: the buffer is cleared instead of split.
split_to_Clear(n) == buf' = <<>>

\* buf.split_to(n): the outcome owns the first n bytes of the buffer.
split_to(n) == buf' = Slice(buf, n, Len(buf))

\* The first n bytes of the buffer were of that kind.
Take(kind, reason, n) ==
  /\ split_to(n)
  /\ outcomes' = Append(outcomes, Reader!Entry(kind, reason, consumed, consumed + n))
  /\ consumed' = consumed + n
  /\ returned' = kind
  /\ UNCHANGED <<stream, fed>>

\* MessageStream::next_message, by what the scan of the buffer came to.
NextIsMessage(scanned) ==
  /\ scanned.kind = "Frame"
  /\ Take("Message", "None", scanned.len)

NextIsGarbled(scanned) ==
  /\ scanned.kind = "Garbled"
  /\ Take("Garbled", scanned.reason, scanned.skipped)

NextIsIncomplete(scanned) ==
  /\ scanned.kind = "Incomplete"
  /\ returned' = "Incomplete"
  /\ UNCHANGED <<stream, fed, buf, consumed, outcomes>>

next_message ==
  \E scanned \in {scan(buf)} :
     \/ NextIsMessage(scanned)
     \/ NextIsGarbled(scanned)
     \/ NextIsIncomplete(scanned)

Next == (\E n \in Chunks : feed(n)) \/ next_message

Spec == Init /\ [][Next]_vars

\* The caller keeps calling next_message.  Nothing obliges the peer to send.
FairSpec == Spec /\ WF_vars(next_message)

-----------------------------------------------------------------------------
TypeOK ==
  /\ stream \in Streams
  /\ fed \in 0 .. Len(stream)
  /\ consumed \in 0 .. fed
  /\ buf \in Seq(Byte)
  /\ outcomes \in Seq([kind : Reader!OutcomeKind, reason : GarbledReason \cup {"None"},
                       from : Nat, to : Nat])
  /\ returned \in Reader!OutcomeKind \cup {"none", "Incomplete"}

\* buf is exactly what has been fed and not yet handed out: splitting off
\* outcomes neither loses a byte nor reorders the ones a later feed appends.
BufferIsUnread == buf = Slice(stream, consumed, fed)

\* MessageStream implements the unbuffered reader: see FrameReader.
ReaderSpec == Reader!ReaderSpec

\* Incomplete is an answer about a bounded buffer: a caller that is told to
\* feed more bytes holds fewer than a frame's worth (or, when max_frame_size
\* is tiny, than a preamble's worth).  A peer cannot make the stream wait for
\* more, whatever it sends.
WaitBound ==
  LET preamble == MAX_BEGIN_STRING_LEN + 4 + MAX_BODY_LENGTH_DIGITS
  IN  IF max_frame_size > preamble THEN max_frame_size ELSE preamble

BoundedWait == scan(buf).kind = "Incomplete" => Len(buf) < WaitBound

\* Where the frames of the stream s that start at offset p end: all of them,
\* those that are messages, and those that the stream does not complete.
Preambles(s, p) ==
  {x \in UNION {{q} \X BodyLengthEnds(q) : q \in BeginStringEnds(p)} :
     Preamble(s, p, x[1], x[2])}

FrameEnds(s, p) ==
  {FrameEnd(s, x[1], x[2]) : x \in {y \in Preambles(s, p) : IsFrame(s, p, y[1], y[2])}}

MessageEnds(s, p) ==
  {FrameEnd(s, x[1], x[2]) : x \in {y \in Preambles(s, p) : IsMessage(s, p, y[1], y[2])}}

OpenEnds(s, p) ==
  {FrameEnd(s, x[1], x[2]) : x \in {y \in Preambles(s, p) : IsOpenFrame(s, p, y[1], y[2])}}

\* The messages from offset p on, given those from each later offset on.
MessagesAt(s, p, later) ==
  IF p = Len(s) \/ OpenEnds(s, p) # {} THEN {}
  ELSE {<<p, e>> : e \in MessageEnds(s, p)}
         \cup later[IF FrameEnds(s, p) # {} THEN Least(FrameEnds(s, p)) ELSE p + 1]

\* Every message in the stream that is not inside a frame's trusted extent or
\* behind a frame that is never completed, found without buffering.
MessagesFrom(s) ==
  LET from[p \in 0 .. Len(s)] == MessagesAt(s, p, from)
  IN  from

MessagesOf(s) == MessagesFrom(s)[0]

Messages == [s \in Streams |-> MessagesOf(s)]

Delivered ==
  {<<outcomes[i].from, outcomes[i].to>> :
     i \in {j \in 1 .. Len(outcomes) : outcomes[j].kind = "Message"}}

\* However the stream is chunked and whenever the caller polls, what has been
\* delivered is what an unbuffered read of the whole stream delivers up to
\* the same place: no message lost to a resync, none invented, none twice.
ChunkInvariant ==
  Delivered = {m \in Messages[stream] : m[2] <= consumed}

\* A caller that keeps polling gets every message whose bytes it has fed:
\* once the whole stream is in, the reader comes to where no message is left
\* in the unread bytes or to a frame that the stream never completes.  No
\* garbled frame stalls the stream.
MessageStarts ==
  [s \in Streams |-> {p \in 0 .. Len(s) - 1 : MessageEnds(s, p) # {}}]

OpenStarts ==
  [s \in Streams |-> {p \in 0 .. Len(s) - 1 : OpenEnds(s, p) # {}}]

AllDelivered ==
  (fed = Len(stream)) ~> \/ \A p \in MessageStarts[stream] : p < consumed
                         \/ consumed \in OpenStarts[stream]
=============================================================================
