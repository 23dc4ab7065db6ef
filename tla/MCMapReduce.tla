---------------------------- MODULE MCMapReduce ----------------------------
(* Instances of MapReduce for TLC: the files, options and hashes. *)
EXTENDS MapReduce, TLC

Entry(hour, light, cars) == [hour |-> hour, light |-> light, cars |-> cars]

\* A file whose lines have these lengths, the last one with a newline or not.
FileOf(lengths, ended) ==
    LET End(i) == FoldLeft(LAMBDA sum, len : sum + len + 1, 0, SubSeq(lengths, 1, i)) - 1
        n == Len(lengths)
    IN  [size     |-> IF n = 0 THEN 0 ELSE IF ended THEN End(n) + 1 ELSE End(n),
         newlines |-> {End(i) : i \in IF ended THEN 1 .. n ELSE 1 .. n - 1},
         lines    |-> [i \in 1 .. n |-> <<End(i) - lengths[i], End(i)>>]]

\* The first hour of a file is not hour 0.
Hours  == {5, 6}
Lights == {0, 1}
Keys   == Hours \X Lights

\* Two hashes: the one of the keys spreads an hour by its lights.
HourHash == [h \in Hours |-> 6 - h]
KeyHash  == [k \in Keys |-> 2 * k[1] + k[2]]

\* The options of a job that only maps bytes; others change some of them.
Job(lengths, es, ended) ==
    [file |-> FileOf(lengths, ended), entries |-> es, words |-> "good", partition |-> "block",
     reducers |-> 2, combine |-> TRUE, verify |-> ended, trace |-> FALSE, matrix |-> FALSE, summary |-> FALSE,
     top |-> 1, hours |-> 3, hourHash |-> HourHash, keyHash |-> KeyHash]

\* Every file of up to three lines, cut by three ranks: lengths up to one over
\* the limit, blank lines, a refused one, and with a last newline or without.
Lengths == UNION {[1 .. n -> 0 .. MaxLine + 1] : n \in 0 .. 3}

\* What is behind the last newline of a file is a line only if it is not empty.
Unended == {lens \in Lengths : lens # <<>> /\ Last(lens) > 0}

ByteJob(lens, bad, ended) ==
    Job(lens, [i \in DOMAIN lens |-> Entry(IF lens[i] = 3 THEN bad ELSE 5, i % 2, i)], ended)

ByteJobs ==
    {ByteJob(lens, bad, TRUE) : lens \in Lengths, bad \in {5, -1}}
    \union {ByteJob(lens, bad, FALSE) : lens \in Unended, bad \in {5, -1}}

\* Files of four lines over the keys, a line without cars among them.
KeyEntries ==
    {<<Entry(5, 0, 1), Entry(b[1], b[2], 2), Entry(c[1], c[2], 2), Entry(6, 0, 0)>> : b \in Keys, c \in Keys}

\* For 2 reducers and a top of 1, and for as many as there are processes, with
\* a trace, a top of 2 and only one hour on the console.
KeyJobs ==
    {[Job(<<2, 2, 2, 2>>, es, TRUE) EXCEPT
        !.partition = partition, !.reducers = count, !.combine = combine, !.matrix = combine,
        !.trace = (count = 0), !.top = IF count = 0 THEN 2 ELSE 1, !.hours = IF count = 0 THEN 1 ELSE 3,
        !.summary = TRUE] :
        es \in KeyEntries, partition \in Partitions, count \in {0, 2}, combine \in BOOLEAN}

\* The command line, good and bad
OptionJobs ==
    {[Job(<<2>>, <<Entry(5, 1, 1)>>, TRUE) EXCEPT !.words = words, !.reducers = count, !.top = top, !.hours = hours] :
        words \in {"good", "help", "unknown", "no number"}, count \in {-1, 0, 1, 4}, top \in {0, 1}, hours \in {-1, 0, 1}}

CheckedJobs == ByteJobs \union KeyJobs \union OptionJobs
=============================================================================
