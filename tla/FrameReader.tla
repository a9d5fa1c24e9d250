----------------------------- MODULE FrameReader -----------------------------
(***************************************************************************)
(* What a reader of a FIX byte stream promises, stated on the complete     *)
(* stream and without buffering.  Reading at offset consumed, the reader   *)
(* delivers the message that is there; or discards a frame whose extent    *)
(* holds but whose checksum or MsgType does not; or, when no frame starts  *)
(* there, skips bytes, never past a place where a frame could start.  At a *)
(* frame the stream never completes it waits.                              *)
(*                                                                         *)
(* How the bytes were cut into chunks on their way here appears nowhere:   *)
(* an implementation of this specification delivers the same messages      *)
(* however its input was chunked.  What a frame is does not either: that   *)
(* is for the implementation to say.                                       *)
(***************************************************************************)
EXTENDS Integers, Sequences

CONSTANTS
  Byte,
  StructuralReason,         \* why no frame starts where one was looked for
  PostStructuralReason,     \* why a frame is no message
  BeginStringEnds(_),       \* where the first field of a frame at an offset,
  BodyLengthEnds(_),        \* and then its second, may end
  FrameMayStart(_, _),      \* a frame may start in a stream at an offset
  IsFrame(_, _, _, _),      \* one starts there, with two fields that end there
  IsMessage(_, _, _, _),    \* and is a message
  IsOpenFrame(_, _, _, _),  \* one starts there and the stream ends inside it
  FrameEnd(_, _, _)         \* where the frame with those fields ends

VARIABLES
  stream,    \* every byte the peer sends
  consumed,  \* how many of them the reader has passed
  outcomes   \* what the reader made of them, in order

rvars == <<stream, consumed, outcomes>>

OutcomeKind == {"Message", "Garbled"}

\* One entry of outcomes: the bytes stream[from..to] and what they were.
Entry(kind, reason, from, to) ==
  [kind |-> kind, reason |-> reason, from |-> from, to |-> to]

ReaderInit ==
  /\ stream \in Seq(Byte)
  /\ consumed = 0
  /\ outcomes = <<>>

Consume(kind, reason, to) ==
  /\ outcomes' = Append(outcomes, Entry(kind, reason, consumed, to))
  /\ consumed' = to
  /\ UNCHANGED stream

Deliver ==
  \E q \in BeginStringEnds(consumed) : \E r \in BodyLengthEnds(q) :
     /\ IsMessage(stream, consumed, q, r)
     /\ Consume("Message", "None", FrameEnd(stream, q, r))

Discard ==
  \E q \in BeginStringEnds(consumed) : \E r \in BodyLengthEnds(q) :
     /\ IsFrame(stream, consumed, q, r)
     /\ ~IsMessage(stream, consumed, q, r)
     /\ \E reason \in PostStructuralReason :
          Consume("Garbled", reason, FrameEnd(stream, q, r))

Skip ==
  /\ \A q \in BeginStringEnds(consumed) : \A r \in BodyLengthEnds(q) :
        /\ ~IsFrame(stream, consumed, q, r)
        /\ ~IsOpenFrame(stream, consumed, q, r)
  /\ \E to \in consumed + 1 .. Len(stream), reason \in StructuralReason :
        /\ \A p \in consumed + 1 .. to - 1 :
              ~FrameMayStart(stream, p)
        /\ Consume("Garbled", reason, to)

ReaderNext == Deliver \/ Discard \/ Skip

ReaderSpec == ReaderInit /\ [][ReaderNext]_rvars
=============================================================================
