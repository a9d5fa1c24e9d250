------------------------------ MODULE PythonLog ------------------------------
(***************************************************************************)
(* LogReader as Python has it: refix._core.LogReader holds the reader in   *)
(* an Option that finish empties (src/log.rs), and collects what the       *)
(* iterator of finish returns before it comes back.  Its caller is either  *)
(* read_log's generator (_drive in log.py), which reads a file chunk by    *)
(* chunk and yields each record, or code that calls it as it likes.        *)
(*                                                                         *)
(* The Option is empty when finished, the reader in it is the one of       *)
(* LogReader, and every step of it is a step of that.  given is history.   *)
(***************************************************************************)
EXTENDS LogReader

VARIABLES
  driven,  \* the caller is the generator
  doing,   \* where the caller is: in a call of finish, or in a loop of _drive
  given,   \* the records that have been returned or yielded, as converted
  raised   \* the last call raised RuntimeError

pvars == <<driven, doing, given, raised>>

PythonInit ==
  /\ Init
  /\ driven \in BOOLEAN
  /\ doing = "nothing"
  /\ given = <<>>
  /\ raised = FALSE

\* A record as Python has it.
convert(record) ==
  [prefix |-> record.prefix, message |-> record.message,
   diagnostics |-> record.diagnostics]

Converted(rs) == [i \in 1 .. Len(rs) |-> convert(rs[i])]

\* What the reader has returned and the caller has not.
Held == Converted(SubSeq(records, Len(given) + 1, Len(records)))

Step(next, handed_over) ==
  /\ doing' = next
  /\ given' = given \o handed_over
  /\ UNCHANGED <<driven, raised>>

-----------------------------------------------------------------------------
\* Code that calls feed, next_record and finish in any order.
Calls == ~driven /\ doing = "nothing"

CallFeed == Calls /\ (\E n \in Chunks : feed(n)) /\ Step("nothing", <<>>)

CallFinish == Calls /\ finish /\ Step("finish", <<>>)

\* reader and finish, of an Option that is empty.
CallFinished ==
  /\ ~driven /\ doing = "end"
  /\ finished
  /\ raised' = TRUE
  /\ UNCHANGED <<vars, driven, doing, given>>

-----------------------------------------------------------------------------
\* next_record, called by either.  The generator yields what it returns, and
\* goes back to the file when it returns None.
CallNextRecord ==
  /\ Calls \/ doing = "take"
  /\ next_record
  /\ Step(IF driven /\ returned' = "Record" THEN "take" ELSE "nothing",
          Converted(SubSeq(records', Len(records) + 1, Len(records'))))

\* _drive: a chunk is read and fed, and the records it completes are yielded
\* before the next is read.
ReadChunk ==
  /\ driven /\ doing = "nothing"
  /\ \E n \in Chunks : feed(n)
  /\ Step("take", <<>>)

\* Fault: the file ends and the reader is not finished.
AtEndOfFile_NoFinish ==
  /\ driven /\ doing = "nothing"
  /\ fed = Len(log)
  /\ Step("end", <<>>)
  /\ UNCHANGED vars

AtEndOfFile == driven /\ doing = "nothing" /\ finish /\ Step("finish", <<>>)

YieldHeld ==
  /\ driven /\ doing = "yield"
  /\ IF Held = <<>> THEN Step("end", <<>>) ELSE Step("yield", <<Held[1]>>)
  /\ UNCHANGED vars

-----------------------------------------------------------------------------
\* finish collects what its iterator returns; no other call gets in between.
Collect ==
  /\ doing = "finish"
  /\ drain
  /\ Step("finish", <<>>)

\* It returns the list, for the caller to have or the generator to yield.
Collected ==
  /\ doing = "finish"
  /\ Drained
  /\ IF driven THEN Step("yield", <<>>) ELSE Step("end", Held)
  /\ UNCHANGED vars

PythonNext ==
  \/ CallFeed \/ CallNextRecord \/ CallFinish \/ CallFinished
  \/ ReadChunk \/ AtEndOfFile \/ YieldHeld
  \/ Collect \/ Collected

PythonSpec == PythonInit /\ [][PythonNext]_<<vars, pvars>>

-----------------------------------------------------------------------------
\* Python gets the records of the log in order and each once, from any of the
\* three places that hand them over: next_record, the list of finish and the
\* generator; has them all when finish has returned to it or the generator has
\* ended; and meets the error only then.
GivenInOrder ==
  \E all \in {RecordsAtOnce} :
     \/ /\ IsPrefixOf(given, Converted(all))
        /\ doing = "end" \/ raised => given = Converted(all)
     \/ SplitMatters(all)
=============================================================================
