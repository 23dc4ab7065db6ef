-------------------------- MODULE TrafficPipeline --------------------------
(***************************************************************************)
(* A run of m2t3d/traffic_sim.cpp over an input file: main checks and      *)
(* probes, and then counts the records itself (mode seq), or starts        *)
(* producers that parse their byte ranges into blocks, the bounded buffer  *)
(* they push the blocks through and consumers that add the records to the  *)
(* totals, joins them all and reports.                                     *)
(*                                                                         *)
(* A critical section of the buffer's mutex is one step, as nothing else   *)
(* reads what it guards; a notification, which the code sends after it     *)
(* released the mutex, is a step of its own.  A record is the number of    *)
(* its line, and an array of totals is the bag of the records added to it. *)
(***************************************************************************)
EXTENDS TrafficFile, FiniteSets

CONSTANTS Producers, Consumers,
          Runs   \* the files, options and faults of the program's runs

ASSUME ThreadsAssumption ==
    /\ IsFiniteSet(Producers) /\ Producers # {}
    /\ Producers = 0 .. Cardinality(Producers) - 1
    /\ IsFiniteSet(Consumers) /\ Consumers # {}

Texts == {"record", "blank", "junk"}

\* Options, and what the disk does: the lines whose bytes cannot be read any
\* more when the threads read them, the producers that cannot open the file.
Options ==
    [file   : {f \in [lines : Seq([text : Texts, len : Nat, date : Seq(Nat), light : Nat, cars : Nat]),
                      ended : BOOLEAN] : f.ended \/ f.lines # <<>>},
     generated : BOOLEAN,         \* mode gen or traffic_gen_skew wrote the file
     unreadable : SUBSET (Nat \ {0}), broken : SUBSET Producers,
     lights : Nat, hours : Nat,   \* --lights, --hours; 0 takes them from the file
     buffer : Nat,                \* --buffer, in blocks
     block  : Nat,                \* --block, in records
     mode   : {"seq", "local", "atomic", "shared"},   \* seq, or par and --summary
     top : Nat, progress : BOOLEAN]

\* A line with a text has a byte. A file does not end several hours before it
\* begins: the difference, cast to uint32_t, would ask for more totals than
\* there is memory.
ASSUME RunsAssumption ==
    /\ Runs \subseteq Options
    /\ \A r \in Runs : \A i \in DOMAIN r.file.lines : r.file.lines[i].text # "blank" => r.file.lines[i].len > 0
    /\ \A r \in Runs : Probed(r.file) => Hours(r.file, r) >= 0

VARIABLES run, input,       \* one of Runs, what it determines; they never change
          ppc, pos, block,  \* producers: place, next byte, block being filled
          cpc, hand, next,  \* consumers: place, block popped, next record of it
          queue, closed, stopped,
          notFull, notEmpty,   \* the threads parked on each condition variable
          pushed, popped, maxDepth,
          tally,            \* tally[s][r]: times r was added to array s
          produced, consumed,  \* recordsProduced, recordsConsumed
          failed, errorText,
          watching,               \* the progress monitor runs
          mpc, counted,           \* main: place, lines read in mode seq
          outcome, summary, report   \* exit, totals by cell, what is reported

producerVars == <<ppc, pos, block>>
consumerVars == <<cpc, hand, next>>
bufferVars   == <<queue, closed, stopped, notFull, notEmpty, pushed, popped, maxDepth>>
contextVars  == <<tally, produced, consumed, failed, errorText>>
mainVars     == <<watching, mpc, counted, outcome, summary, report>>
runVars == <<run, input>>
vars == <<runVars, producerVars, consumerVars, bufferVars, contextVars, mainVars>>

-----------------------------------------------------------------------------
file == run.file
lines == file.lines

\* What the program finds out about its file, computed once: the first byte of
\* every line and of what follows the last one, the bounds of the producers'
\* ranges, whether the probe succeeds, and the lines to count and to refuse.
InputOf(r) ==
    LET f       == r.file
        refused == IF Probed(f) THEN {i \in DOMAIN f.lines : LineRefused(f, r, f.lines[i])} ELSE {}
    IN  [first   |-> [i \in 1 .. Len(f.lines) + 1 |-> FirstByte(f, i)],
         bounds  |-> [p \in 0 .. Cardinality(Producers) |-> RangeStart(f, p, Cardinality(Producers))],
         probed  |-> Probed(f),
         refused |-> refused,
         records |-> IF Probed(f) THEN {i \in DOMAIN f.lines : f.lines[i].text = "record"} \ refused
                     ELSE {}]

Accepted == run.block >= 1

Capacity == IF run.buffer = 0 THEN 1 ELSE run.buffer

Slots == IF run.mode = "local" THEN Consumers ELSE {"global"}
SlotOf(c) == IF run.mode = "local" THEN c ELSE "global"

Start(p) == input.bounds[p]
End(p) == input.bounds[p + 1]

\* The line that a byte of the file, its newline included, belongs to.
LineAt(byte) == CHOOSE i \in DOMAIN lines : input.first[i] <= byte /\ byte < input.first[i + 1]

Records == input.records
Refused(i) == i \in input.refused

\* Whether the run has a reason to give up: options, probe, file or a line.
Bad == ~Accepted \/ ~input.probed \/ run.broken # {} \/ input.refused # {}

\* The records a producer has counted in `produced`: all that it pushed or holds.
RecordsRead(p) == {i \in Records : Start(p) <= input.first[i] /\ input.first[i] < pos[p]}

Total(r) == MapThenSumSet(LAMBDA s : tally[s][r], Slots)

\* The totals by hour and light, and those of a file whose records all count.
Sums(times) ==
    [c \in Cells(file, run) |->
        MapThenSumSet(LAMBDA r : times[r] * lines[r].cars,
                      {r \in Records : CellOf(file, lines[r]) = c})]

NoError == <<>>

\* push waits
Full == Len(queue) >= Capacity

\* pop has nothing more to return
Drained == queue = <<>> /\ closed

\* Mutant: the partial block at the end of a range is not pushed.
PartialDropped(p) == FALSE

PartialLeft(p) == block[p] # <<>>

-----------------------------------------------------------------------------
Init ==
    /\ run \in Runs /\ input = InputOf(run)
    /\ ppc = [p \in Producers |-> "created"]
    /\ pos = [p \in Producers |-> Start(p)]
    /\ block = [p \in Producers |-> <<>>]
    /\ cpc = [c \in Consumers |-> "created"]
    /\ hand = [c \in Consumers |-> <<>>]
    /\ next = [c \in Consumers |-> 1]
    /\ queue = <<>> /\ closed = FALSE /\ stopped = FALSE
    /\ notFull = {} /\ notEmpty = {}
    /\ pushed = 0 /\ popped = 0 /\ maxDepth = 0
    /\ tally = [s \in Slots |-> [r \in Records |-> 0]]
    /\ produced = 0 /\ consumed = 0
    /\ failed = FALSE /\ errorText = NoError
    /\ watching = FALSE /\ mpc = "start" /\ counted = 0
    /\ outcome = "running" /\ summary = <<>> /\ report = {}

ProducerGoto(p, l) == ppc' = [ppc EXCEPT ![p] = l]
ConsumerGoto(c, l) == cpc' = [cpc EXCEPT ![c] = l]

\* main gives up before it starts any thread: options or probe.
Reject ==
    /\ mpc = "start"
    /\ ~Accepted \/ ~input.probed
    /\ mpc' = "exit" /\ outcome' = "aborted"
    /\ UNCHANGED <<runVars, producerVars, consumerVars, bufferVars, contextVars, watching, counted,
                   summary, report>>

\* runParallel up to its joins: the threads are created.
StartThreads ==
    /\ mpc = "start" /\ Accepted /\ input.probed /\ run.mode # "seq"
    /\ mpc' = "joinProducers"
    /\ watching' = run.progress
    /\ ppc' = [p \in Producers |-> "open"]
    /\ cpc' = [c \in Consumers |-> "pop"]
    /\ UNCHANGED <<runVars, pos, block, hand, next, bufferVars, contextVars, counted, outcome, summary, report>>

-----------------------------------------------------------------------------
(* Mode seq: main reads every line itself                                  *)

StartSequential ==
    /\ mpc = "start" /\ Accepted /\ input.probed /\ run.mode = "seq"
    /\ IF run.broken # {} THEN mpc' = "exit" /\ outcome' = "aborted"
       ELSE mpc' = "count" /\ UNCHANGED outcome
    /\ UNCHANGED <<runVars, producerVars, consumerVars, bufferVars, contextVars, watching, counted,
                   summary, report>>

\* getline gives no further line: the end of the file, or a failed read.
FileRead == counted = Len(lines) \/ counted + 1 \in run.unreadable

CountLine ==
    /\ mpc = "count" /\ ~FileRead
    /\ LET i == counted + 1
       IN  IF Refused(i)
           THEN mpc' = "exit" /\ outcome' = "aborted" /\ UNCHANGED <<counted, tally>>
           ELSE /\ counted' = i
                /\ tally' = IF i \in Records THEN [tally EXCEPT !["global"][i] = @ + 1] ELSE tally
                /\ UNCHANGED <<mpc, outcome>>
    /\ UNCHANGED <<runVars, producerVars, consumerVars, bufferVars, produced, consumed, failed, errorText,
                   watching, summary, report>>

ReportSequential ==
    /\ mpc = "count" /\ FileRead
    /\ mpc' = "exit" /\ outcome' = "reported"
    /\ summary' = Sums([r \in Records |-> Total(r)])
    /\ report' = RankAndReport(file, summary', run.top)
    /\ UNCHANGED <<runVars, producerVars, consumerVars, bufferVars, contextVars, watching, counted>>

-----------------------------------------------------------------------------
(* Producers                                                               *)

\* Mutant: the rest of the line is thrown away even when the range begins one.
InsideLineAlways(p) == Start(p) > 0

\* The byte before the range is no newline: the range begins inside a line.
InsideLine(p) == Start(p) > 0 /\ \A i \in DOMAIN lines : input.first[i + 1] - 1 # Start(p) - 1

\* Open the file and find the first line that begins in the range; a failed
\* read ends the producer.
FindFirstLine(p) ==
    /\ ppc[p] = "open"
    /\ IF p \in run.broken THEN ProducerGoto(p, "failText") /\ UNCHANGED pos
       ELSE LET before == LineAt(Start(p) - 1)
            IN  IF Start(p) > 0 /\ before \in run.unreadable
                THEN ProducerGoto(p, "done") /\ UNCHANGED pos
                ELSE /\ ProducerGoto(p, "read")
                     /\ pos' = IF ~InsideLine(p) THEN pos
                               ELSE [pos EXCEPT ![p] = input.first[LineAt(@) + 1]]
    /\ UNCHANGED <<runVars, block, consumerVars, bufferVars, contextVars, mainVars>>

\* The loop of producerThread is over: end of the range, or getline fails.
RangeRead(p) == pos[p] < End(p) => LineAt(pos[p]) \in run.unreadable

\* The next line of p's range: the loop of producerThread up to its push.
ReadLine(p) ==
    /\ ppc[p] = "read"
    /\ ~RangeRead(p)
    /\ LET i == LineAt(pos[p])
       IN  /\ block' = IF i \in Records THEN [block EXCEPT ![p] = Append(@, i)] ELSE block
           /\ pos' = IF Refused(i) THEN pos ELSE [pos EXCEPT ![p] = @ + lines[i].len + 1]
           /\ ProducerGoto(p, CASE Refused(i) -> "failText"
                                [] i \in Records /\ Len(block'[p]) >= run.block -> "push"
                                [] OTHER -> "read")
    /\ UNCHANGED <<runVars, consumerVars, bufferVars, contextVars, mainVars>>

\* The end of the range: a partial block is pushed, then the producer reports.
EndOfRange(p) ==
    /\ ppc[p] = "read"
    /\ RangeRead(p)
    /\ IF PartialLeft(p)
       THEN ProducerGoto(p, "push") /\ UNCHANGED produced
       ELSE /\ ProducerGoto(p, "done")
            /\ produced' = produced + Cardinality(RecordsRead(p))
    /\ UNCHANGED <<runVars, pos, block, consumerVars, bufferVars, tally, consumed, failed, errorText, mainVars>>

\* BoundedBuffer::push up to its unlock, or to its wait on notFull_.
Push(p) ==
    /\ ppc[p] = "push"
    /\ \/ /\ stopped
          /\ ProducerGoto(p, "done")
          /\ UNCHANGED <<block, queue, pushed, maxDepth, notFull>>
       \/ /\ ~stopped /\ Full
          /\ notFull' = notFull \union {p}
          /\ ProducerGoto(p, "waiting")
          /\ UNCHANGED <<block, queue, pushed, maxDepth>>
       \/ /\ ~stopped /\ ~Full
          /\ queue' = Append(queue, block[p])
          /\ block' = [block EXCEPT ![p] = <<>>]
          /\ pushed' = pushed + 1
          /\ maxDepth' = IF Len(queue') > maxDepth THEN Len(queue') ELSE maxDepth
          /\ ProducerGoto(p, "notify")
          /\ UNCHANGED notFull
    /\ UNCHANGED <<runVars, pos, consumerVars, closed, stopped, notEmpty, popped, contextVars, mainVars>>

\* notify_one on notEmpty_ or notFull_: some waiter, if there is one, leaves
\* the wait and takes the mutex to test its loop condition again.
WakeConsumer ==
    IF notEmpty = {} THEN UNCHANGED <<notEmpty, cpc>>
    ELSE \E c \in notEmpty : notEmpty' = notEmpty \ {c} /\ ConsumerGoto(c, "pop")

WakeProducer ==
    IF notFull = {} THEN UNCHANGED <<notFull, ppc>>
    ELSE \E p \in notFull : notFull' = notFull \ {p} /\ ProducerGoto(p, "push")

NotifyNotEmpty(p) ==
    /\ ppc[p] = "notify"
    /\ ProducerGoto(p, "read")
    /\ WakeConsumer
    /\ UNCHANGED <<runVars, pos, block, hand, next, queue, closed, stopped, notFull, pushed, popped,
                   maxDepth, contextVars, mainVars>>

\* A file that does not open, or the line at a byte.
Message(p) == IF p \in run.broken THEN <<p>> ELSE <<p, pos[p]>>

\* RunContext::fail, and the stop() it calls: text, flag, stopped_, wake-ups.
FailText(p) ==
    /\ ppc[p] = "failText"
    /\ errorText' = IF errorText = NoError THEN Message(p) ELSE errorText
    /\ ProducerGoto(p, "failFlag")
    /\ UNCHANGED <<runVars, pos, block, consumerVars, bufferVars, tally, produced, consumed, failed, mainVars>>

FailFlag(p) ==
    /\ ppc[p] = "failFlag"
    /\ failed' = TRUE
    /\ ProducerGoto(p, "stop")
    /\ UNCHANGED <<runVars, pos, block, consumerVars, bufferVars, tally, produced, consumed, errorText, mainVars>>

Stop(p) ==
    /\ ppc[p] = "stop"
    /\ stopped' = TRUE
    /\ ProducerGoto(p, "stopNotEmpty")
    /\ UNCHANGED <<runVars, pos, block, consumerVars, queue, closed, notFull, notEmpty, pushed, popped,
                   maxDepth, contextVars, mainVars>>

\* notify_all on notEmpty_ (the mutant of it is WakeConsumer, notify_one)
WakeConsumers ==
    /\ cpc' = [c \in Consumers |-> IF c \in notEmpty THEN "pop" ELSE cpc[c]]
    /\ notEmpty' = {}

StopNotEmpty(p) ==
    /\ ppc[p] = "stopNotEmpty"
    /\ WakeConsumers
    /\ ProducerGoto(p, "stopNotFull")
    /\ UNCHANGED <<runVars, pos, block, hand, next, queue, closed, stopped, notFull, pushed, popped,
                   maxDepth, contextVars, mainVars>>

\* Mutant: stop() wakes the consumers only.
StopNotFullForgotten(p) ==
    /\ ppc[p] = "stopNotFull"
    /\ ProducerGoto(p, "done")
    /\ UNCHANGED <<runVars, pos, block, consumerVars, bufferVars, contextVars, mainVars>>

StopNotFull(p) ==
    /\ ppc[p] = "stopNotFull"
    /\ ppc' = [q \in Producers |-> CASE q = p -> "done" [] q \in notFull -> "push" [] OTHER -> ppc[q]]
    /\ notFull' = {}
    /\ UNCHANGED <<runVars, pos, block, consumerVars, queue, closed, stopped, notEmpty, pushed, popped,
                   maxDepth, contextVars, mainVars>>

\* BoundedBuffer::pop up to its unlock, or to its wait on notEmpty_.
Pop(c) ==
    /\ cpc[c] = "pop"
    /\ \/ /\ stopped \/ Drained
          /\ ConsumerGoto(c, "done")
          /\ UNCHANGED <<hand, next, queue, popped, notEmpty>>
       \/ /\ ~stopped /\ ~Drained /\ queue = <<>>
          /\ notEmpty' = notEmpty \union {c}
          /\ ConsumerGoto(c, "waiting")
          /\ UNCHANGED <<hand, next, queue, popped>>
       \/ /\ ~stopped /\ ~Drained /\ queue # <<>>
          /\ hand' = [hand EXCEPT ![c] = Head(queue)]
          /\ next' = [next EXCEPT ![c] = 1]
          /\ queue' = Tail(queue)
          /\ popped' = popped + 1
          /\ ConsumerGoto(c, "notify")
          /\ UNCHANGED notEmpty
    /\ UNCHANGED <<runVars, producerVars, closed, stopped, notFull, pushed, maxDepth, contextVars, mainVars>>

NotifyNotFull(c) ==
    /\ cpc[c] = "notify"
    /\ ConsumerGoto(c, "apply")
    /\ WakeProducer
    /\ UNCHANGED <<runVars, pos, block, hand, next, queue, closed, stopped, notEmpty, pushed, popped,
                   maxDepth, contextVars, mainVars>>

\* applyRecord: the consumer's own array, an atomic, or under globalMutex.
ApplyRecord(c) ==
    /\ cpc[c] = "apply"
    /\ next[c] <= Len(hand[c])
    /\ tally' = [tally EXCEPT ![SlotOf(c)][hand[c][next[c]]] = @ + 1]
    /\ next' = [next EXCEPT ![c] = @ + 1]
    /\ UNCHANGED <<runVars, producerVars, cpc, hand, bufferVars, produced, consumed, failed, errorText, mainVars>>

\* The block is applied: account for it and pop the next one.
EndOfBlock(c) ==
    /\ cpc[c] = "apply"
    /\ next[c] > Len(hand[c])
    /\ consumed' = consumed + Len(hand[c])
    /\ hand' = [hand EXCEPT ![c] = <<>>]
    /\ next' = [next EXCEPT ![c] = 1]
    /\ ConsumerGoto(c, "pop")
    /\ UNCHANGED <<runVars, producerVars, bufferVars, tally, produced, failed, errorText, mainVars>>

\* A wait may end with no notification.
SpuriousWakeup ==
    \/ \E p \in notFull : /\ notFull' = notFull \ {p}
                          /\ ProducerGoto(p, "push")
                          /\ UNCHANGED <<notEmpty, cpc>>
    \/ \E c \in notEmpty : /\ notEmpty' = notEmpty \ {c}
                           /\ ConsumerGoto(c, "pop")
                           /\ UNCHANGED <<notFull, ppc>>

Spurious ==
    /\ SpuriousWakeup
    /\ UNCHANGED <<runVars, pos, block, hand, next, queue, closed, stopped, pushed, popped, maxDepth,
                   contextVars, mainVars>>

-----------------------------------------------------------------------------
(* main, after it started the threads                                      *)

\* Join the producers and close() the buffer, ...
Close ==
    /\ mpc = "joinProducers"
    /\ \A p \in Producers : ppc[p] = "done"
    /\ closed' = TRUE
    /\ mpc' = "notify"
    /\ UNCHANGED <<runVars, producerVars, consumerVars, queue, stopped, notFull, notEmpty, pushed, popped,
                   maxDepth, contextVars, watching, counted, outcome, summary, report>>

CloseNotify ==
    /\ mpc = "notify"
    /\ WakeConsumers
    /\ mpc' = "joinConsumers"
    /\ UNCHANGED <<runVars, producerVars, hand, next, queue, closed, stopped, notFull, pushed, popped,
                   maxDepth, contextVars, watching, counted, outcome, summary, report>>

\* ... join the consumers and tell the progress monitor that it is over, ...
JoinConsumers ==
    /\ mpc = "joinConsumers"
    /\ \A c \in Consumers : cpc[c] = "done"
    /\ mpc' = "joinMonitor"
    /\ UNCHANGED <<runVars, producerVars, consumerVars, bufferVars, contextVars, watching, counted,
                   outcome, summary, report>>

\* The monitor wakes up and reads running; until then it only prints.
Monitor ==
    /\ watching /\ mpc = "joinMonitor"
    /\ watching' = FALSE
    /\ UNCHANGED <<runVars, producerVars, consumerVars, bufferVars, contextVars, mpc, counted, outcome,
                   summary, report>>

\* ... and give up, or merge the totals, rank and report them.
Finish ==
    /\ mpc = "joinMonitor" /\ ~watching
    /\ mpc' = "exit"
    /\ IF failed
       THEN outcome' = "aborted" /\ UNCHANGED <<summary, report>>
       ELSE /\ outcome' = "reported"
            /\ summary' = Sums([r \in Records |-> Total(r)])
            /\ report' = RankAndReport(file, summary', run.top)
    /\ UNCHANGED <<runVars, producerVars, consumerVars, bufferVars, contextVars, watching, counted>>

Exited == mpc = "exit" /\ UNCHANGED vars

Producer(p) ==
    \/ FindFirstLine(p) \/ ReadLine(p) \/ EndOfRange(p) \/ Push(p) \/ NotifyNotEmpty(p)
    \/ FailText(p) \/ FailFlag(p) \/ Stop(p) \/ StopNotEmpty(p) \/ StopNotFull(p)
Consumer(c) == Pop(c) \/ NotifyNotFull(c) \/ ApplyRecord(c) \/ EndOfBlock(c)
Sequential == StartSequential \/ CountLine \/ ReportSequential
Main == Reject \/ StartThreads \/ Sequential \/ Close \/ CloseNotify \/ JoinConsumers \/ Finish

Next ==
    \/ \E p \in Producers : Producer(p)
    \/ \E c \in Consumers : Consumer(c)
    \/ Main \/ Monitor \/ Spurious \/ Exited

Spec == Init /\ [][Next]_vars

\* Every thread that is not parked runs and gets the mutex; nothing makes a
\* spurious wakeup happen.
Fairness ==
    /\ \A p \in Producers : WF_vars(Producer(p))
    /\ \A c \in Consumers : WF_vars(Consumer(c))
    /\ WF_vars(Main) /\ WF_vars(Monitor)

FairSpec == Spec /\ Fairness

-----------------------------------------------------------------------------
ProducerPlaces == {"created", "open", "read", "push", "waiting", "notify", "failText", "failFlag",
                   "stop", "stopNotEmpty", "stopNotFull", "done"}
ConsumerPlaces == {"created", "pop", "waiting", "notify", "apply", "done"}

\* The queue holds blocks, and the parked threads are those whose place is the wait.
TypeOK ==
    /\ run \in Runs
    /\ ppc \in [Producers -> ProducerPlaces]
    /\ pos \in [Producers -> Nat]
    /\ block \in [Producers -> Seq(Records)]
    /\ cpc \in [Consumers -> ConsumerPlaces]
    /\ hand \in [Consumers -> Seq(Records)]
    /\ next \in [Consumers -> Nat \ {0}]
    /\ queue \in Seq(Seq(Records))
    /\ closed \in BOOLEAN /\ stopped \in BOOLEAN /\ failed \in BOOLEAN /\ watching \in BOOLEAN
    /\ notFull = {p \in Producers : ppc[p] = "waiting"}
    /\ notEmpty = {c \in Consumers : cpc[c] = "waiting"}
    /\ pushed \in Nat /\ popped \in Nat /\ maxDepth \in 0 .. Capacity
    /\ tally \in [Slots -> [Records -> Nat]]
    /\ produced \in Nat /\ consumed \in Nat /\ counted \in 0 .. Len(lines)
    /\ errorText \in Seq(Nat)
    /\ mpc \in {"start", "count", "joinProducers", "notify", "joinConsumers", "joinMonitor", "exit"}
    /\ outcome \in {"running", "reported", "aborted"}

(* Every record is counted once, whatever the bytes its range begins and   *)
(* ends with, the interleaving, the capacity and the mode, and the totals  *)
(* are reported exactly when options, file and lines give no reason not to. *)
CO == INSTANCE CountOnce
        WITH records <- Records, bad <- Bad, tally <- [r \in Records |-> Total(r)]
CountOnceSpec == CO!Spec

\* The cars that the lines of the file name for a light in an hour.
CarsOf(date, light) ==
    MapThenSumSet(LAMBDA r : lines[r].cars,
                  {r \in Records : lines[r].date = date /\ lines[r].light = light})

(* The report names, under the date and hour that the lines carry and for  *)
(* every hour with cars, the lights with the most cars: the one at place k *)
(* has its own sum, k - 1 lights are before it with more cars, or as many  *)
(* and a smaller id, and no light is missing below the limit of --top. So  *)
(* the modes report the same.                                              *)
RankingTrue ==
    \A date \in {lines[r].date : r \in Records} :
        LET named == {lines[r].light : r \in {x \in Records : lines[x].date = date}}
            busy  == {l \in named : CarsOf(date, l) > 0}
            Before(l) == {m \in busy : \/ CarsOf(date, m) > CarsOf(date, l)
                                       \/ CarsOf(date, m) = CarsOf(date, l) /\ m < l}
            ranked == {l \in busy : Cardinality(Before(l)) < run.top}
        IN  busy # {} =>
              \E hour \in report :
                /\ hour.label = date
                /\ Len(hour.lights) = Cardinality(ranked)
                /\ \A l \in ranked :
                     hour.lights[Cardinality(Before(l)) + 1] = [light |-> l, cars |-> CarsOf(date, l)]

\* A run over dates that exist, of a good generator if it wrote the file
Regular(r) ==
    /\ \A i \in DOMAIN r.file.lines : Parses(r.file.lines[i]) => IsDate(r.file.lines[i].date)
    /\ r.generated => Written(r.file, r) /\ r.block >= 1 /\ r.broken = {}

(* The report: the ranking is true, and the counters printed next to it    *)
(* agree with one another and with an empty buffer.                        *)
ReportAgrees ==
    outcome = "reported" =>
        /\ RankingTrue
        /\ run.mode # "seq" =>
              /\ produced = Cardinality(Records) /\ consumed = produced
              /\ pushed = popped /\ queue = <<>>

(* An aborted run names a line the program refuses or a producer without a *)
(* file, a file that a generator wrote is never refused, and a producer    *)
(* gives up a block it has read only in a run that will be aborted.        *)
AbortsExplained ==
    /\ failed => \/ errorText \in {<<p>> : p \in run.broken}
                 \/ \E p \in Producers, i \in DOMAIN lines :
                       Refused(i) /\ errorText = <<p, input.first[i]>>
    /\ outcome = "aborted" => ~run.generated
    /\ stopped => failed
    /\ \A p \in Producers : ppc[p] = "done" /\ block[p] # <<>> => failed

(* The two together: what a run that ends says about its end is true,      *)
(* whether it reports or aborts.                                           *)
OutcomeExplained == ReportAgrees /\ AbortsExplained

(* No wakeup is lost: while a consumer is parked, every queued block has a *)
(* notification on its way or a consumer about to take the mutex, and      *)
(* while a producer is parked, every free slot has; close() and stop()     *)
(* leave nobody parked behind them.  The sets of parked threads are those  *)
(* of TypeOK.                                                              *)
NoLostWakeup ==
    /\ TypeOK
    /\ notEmpty # {} /\ ~stopped =>
          Len(queue) <= Cardinality({p \in Producers : ppc[p] = "notify"})
                        + Cardinality({c \in Consumers : cpc[c] = "pop"})
    /\ notFull # {} /\ ~stopped =>
          Capacity - Len(queue) <= Cardinality({c \in Consumers : cpc[c] = "notify"})
                                   + Cardinality({p \in Producers : ppc[p] = "push"})
    /\ notEmpty # {} /\ closed => mpc = "notify"
    /\ notEmpty # {} /\ stopped => \E p \in Producers : ppc[p] = "stopNotEmpty"
    /\ notFull # {} /\ stopped => \E p \in Producers : ppc[p] \in {"stopNotEmpty", "stopNotFull"}

(* The comment on producerThread: "Every line is read exactly once", so    *)
(* that a run that reports has counted every record of the file.           *)
EveryLineRead == outcome = "reported" => \A r \in Records : Total(r) = 1

(* Every run ends: nobody is left parked on notEmpty_ or notFull_ for      *)
(* ever, whether the input is good or a producer stops the run.            *)
RunEnds == <>(outcome # "running")
=============================================================================
