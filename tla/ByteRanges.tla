----------------------------- MODULE ByteRanges -----------------------------
(***************************************************************************)
(* How the ranks of m3t3d/traffic_mr.cpp share one file by bytes:          *)
(* forEachLine, which hands the lines of a range to the mapper.            *)
(*                                                                         *)
(* A file is its size and the offsets of its newlines; no other bytes are  *)
(* told apart.  A line is handed over as <<first, last>>: the offset of    *)
(* its first byte and of the newline, or the end of the file, behind it.   *)
(***************************************************************************)
EXTENDS Integers, Sequences, SequencesExt

CONSTANTS ChunkBytes,   \* kChunkBytes
          MaxLine       \* kMaxLine

ASSUME BytesAssumption == ChunkBytes \in Nat \ {0} /\ MaxLine \in Nat \ {0}

\* The range of a rank is [RangeStart(rank), RangeStart(rank + 1)).
RangeStart(size, rank, procs) == (size * rank) \div procs

\* The bytes of the next read: up to end, or on to the end of a line behind it.
Want(file, end, readPos) ==
    Min({ChunkBytes, file.size - readPos, Max({end - readPos, MaxLine})})

\* Mutant: a line that fills the limit is refused.
TooLongEarly(rest) == rest >= MaxLine

\* What is left of the buffer cannot be the beginning of a line.
TooLong(rest) == rest > MaxLine

\* A turn of the inner loop: the line that ends with this newline.
Hand(s, end, newline) ==
    CASE s.skipping -> [s EXCEPT !.at = newline + 1, !.skipping = FALSE]
      [] ~s.skipping /\ s.at >= end -> [s EXCEPT !.status = "done"]
      [] ~s.skipping /\ s.at < end ->
            [s EXCEPT !.at = newline + 1, !.lines = Append(@, <<s.at, newline>>)]

\* No whole line is left in the buffer: the last bytes of the file are a line
\* too, and otherwise more is read.
Refill(file, end, s) ==
    LET eof  == s.readPos >= file.size
        rest == s.readPos - s.at
    IN  CASE eof -> [s EXCEPT !.status = "done",
                              !.lines = IF rest > 0 /\ ~s.skipping /\ s.at < end
                                        THEN Append(@, <<s.at, s.readPos>>) ELSE @]
          [] ~eof /\ TooLong(rest)  -> [s EXCEPT !.status = "failed"]
          [] ~eof /\ ~TooLong(rest) -> [s EXCEPT !.readPos = @ + Want(file, end, s.readPos)]

Turn(file, end, s) ==
    LET newlines == {b \in file.newlines : s.at <= b /\ b < s.readPos}
    IN  IF newlines = {} THEN Refill(file, end, s) ELSE Hand(s, end, Min(newlines))

\* Mutant: the first line of every range but the first one is dropped.
SkipsAlways(file, start) == start > 0

\* The byte before the range is not a newline: it starts inside a line.
SkipsFirst(file, start) == start > 0 /\ start - 1 \notin file.newlines

\* The bytes from at to readPos are in the buffer.
Readings == [at : Nat, readPos : Nat, skipping : BOOLEAN, lines : Seq(Nat \X Nat),
             status : {"reading", "done", "failed"}]

\* forEachLine over [start, end): the lines handed over, and how it ended.
ForEachLine(file, start, end) ==
    LET read[s \in Readings] == IF s.status = "reading" THEN read[Turn(file, end, s)] ELSE s
    IN  read[[at |-> start, readPos |-> start, skipping |-> SkipsFirst(file, start),
              lines |-> <<>>, status |-> IF start >= end THEN "done" ELSE "reading"]]
=============================================================================
