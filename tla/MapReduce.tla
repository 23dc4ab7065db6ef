----------------------------- MODULE MapReduce -----------------------------
(***************************************************************************)
(* m3t3d/traffic_mr.cpp: the ranks of one MPI job map their byte range of  *)
(* the file, agree on a plan, shuffle every entry to the reducer of its    *)
(* key, reduce, and gather the ranking on rank 0.                          *)
(*                                                                         *)
(* The work of one rank between two collectives is one step; a collective  *)
(* is one step that every rank takes together, once all of them called it. *)
(* (The collectives between which nothing is computed are one.)  Entries   *)
(* are the code's KeyTotal, and the two hashes are whatever the job says.  *)
(***************************************************************************)
EXTENDS ByteRanges, Partitioner

CONSTANTS Procs,   \* the processes of a job
          Jobs     \* the files and options of the program's runs

Ranks == 0 .. Procs - 1
Partitions == {"block", "hash", "weighted", "light", "hybrid"}

ASSUME ProcsAssumption == Procs \in Nat \ {0}
\* The lines of a file: one up to each newline, and one up to the end of the
\* file if bytes are left.
LinesOf(file) ==
    LET ends == file.newlines \union (IF file.size = 0 \/ file.size - 1 \in file.newlines THEN {} ELSE {file.size})
    IN  /\ file.lines \in Seq(Nat \X Nat)
        /\ \A i \in DOMAIN file.lines :
              /\ file.lines[i][1] = IF i = 1 THEN 0 ELSE file.lines[i - 1][2] + 1
              /\ file.lines[i][1] <= file.lines[i][2]
              /\ file.newlines \intersect file.lines[i][1] .. file.lines[i][2] - 1 = {}
        /\ ends = {file.lines[i][2] : i \in DOMAIN file.lines}

\* A file is its size, its newlines and the lines they make, and the entry on
\* each of these, or one with an hour below 0 for a line that parseLine
\* or the checks behind it refuse. The words of the command line are good, ask
\* for help, hold an unknown one, or a number that is none.
ASSUME JobsAssumption ==
    \A j \in Jobs :
        /\ j.file.size \in Nat /\ j.file.newlines \subseteq 0 .. j.file.size - 1 /\ LinesOf(j.file)
        /\ DOMAIN j.entries = DOMAIN j.file.lines
        /\ \A i \in DOMAIN j.entries :
              /\ j.entries[i] \in [hour : Int, light : Nat, cars : Nat]
              /\ j.entries[i].hour >= 0 =>
                    j.hourHash[j.entries[i].hour] \in Nat /\ j.keyHash[Key(j.entries[i])] \in Nat
        /\ j.words \in {"good", "help", "unknown", "no number"} /\ j.partition \in Partitions
        /\ {j.reducers, j.top, j.hours} \subseteq Int
        /\ {j.combine, j.verify, j.trace, j.matrix, j.summary} \subseteq BOOLEAN

VARIABLES job,        \* one of Jobs; it never changes
          pc,         \* the place of every rank
          mapped,     \* the lines forEachLine handed to every rank
          entries,    \* what every rank is about to ship
          view,       \* what agree() told every rank
          owner,      \* Partitioner::ownerOfHour of every rank
          sent,       \* ShuffleResult::sendCounts of every rank
          received,   \* received[r][s]: the run of sender s, from 1; one run when merged
          keys, candidates,   \* ReduceResult of every rank
          partials,   \* the trace text of every reducer
          ranked, collected, checked,   \* on rank 0: the ranking, the statistics
                                        \* and the totals under the checksum
          printed,    \* on rank 0: the traces, the hours, the file and the summary
          healthy     \* no read and no allocation of a rank has failed (history)

mapVars    == <<mapped, entries>>
planVars   == <<view, owner>>
moveVars   == <<sent, received>>
reduceVars == <<keys, candidates, partials>>
rootVars   == <<ranked, collected, checked, printed>>
dataVars   == <<mapVars, planVars, moveVars, reduceVars, rootVars>>
vars       == <<job, pc, dataVars, healthy>>

-----------------------------------------------------------------------------
file == job.file

\* configure: no --reducers means all of them.
reducers == IF job.reducers = 0 THEN Procs ELSE job.reducers

\* The entry on a line, and one with a negative hour for any other bytes.
EntryAt(l) ==
    LET whole == {i \in DOMAIN file.lines : file.lines[i] = l}
    IN  IF whole = {} THEN [hour |-> -1, light |-> 0, cars |-> 0]
        ELSE job.entries[CHOOSE i \in whole : TRUE]

\* The entries on these lines; an empty line holds none.
EntriesAt(lines) ==
    LET full == Only(lines, LAMBDA l : l[1] < l[2])
    IN  [i \in DOMAIN full |-> EntryAt(full[i])]

\* Mutant: the hash is taken modulo the number of processes.
ByLightOfAll(e) == job.keyHash[Key(e)] % Procs

ByLight(e) == job.keyHash[Key(e)] % reducers

\* Partitioner::destination on rank s
Destination(s, e) ==
    LET own == owner[s][e.hour - view.minHour + 1]
    IN  CASE job.partition \in {"block", "weighted"} -> own
          [] job.partition = "hash"   -> job.hourHash[e.hour] % reducers
          [] job.partition = "light"  -> ByLight(e)
          [] job.partition = "hybrid" -> IF own = SplitHour THEN ByLight(e) ELSE own

\* A vector of every rank, gathered in rank order
Gathered(f) == FlattenSeq([r \in 1 .. Procs |-> f[r - 1]])

SumOver(S, f(_)) == MapThenSumSet(f, S)

-----------------------------------------------------------------------------
Empty == [r \in Ranks |-> <<>>]
AllAt(l) == \A r \in Ranks : pc[r] = l
AllGoto(l) == pc' = [r \in Ranks |-> l]
Goto(r, l) == pc' = [pc EXCEPT ![r] = l]

NoView == [minHour |-> 0, maxHour |-> 0, records |-> 0, cars |-> 0]

Init ==
    /\ job \in Jobs
    /\ pc = [r \in Ranks |-> "configure"]
    /\ mapped = Empty /\ entries = Empty /\ view = NoView /\ owner = Empty
    /\ sent = Empty /\ received = Empty
    /\ keys = [r \in Ranks |-> 0] /\ candidates = Empty /\ partials = Empty
    /\ ranked = <<>> /\ collected = <<>> /\ checked = <<>>
    /\ printed = [map |-> <<>>, plan |-> <<>>, reduce |-> <<>>, shown |-> <<>>, written |-> <<>>, summary |-> <<>>]
    /\ healthy = TRUE

\* fatal(): MPI_Abort ends every rank.
Fatal == AllGoto("killed") /\ UNCHANGED dataVars

\* What parseArgs and the check of the reducers let pass
Accepted == job.words = "good" /\ job.top >= 1 /\ reducers \in 1 .. Procs

\* std::stoi throws for a word that is no number, and nothing catches it.
Configure(r) ==
    /\ pc[r] = "configure"
    /\ IF job.words = "no number" THEN Fatal
       ELSE /\ Goto(r, IF Accepted THEN "open" ELSE IF job.words = "help" THEN "finish 0" ELSE "finish 1")
            /\ UNCHANGED dataVars
    /\ UNCHANGED <<job, healthy>>

\* MPI_File_open, which fails on every rank or on none.
Open ==
    /\ AllAt("open")
    /\ \/ AllGoto("map") \/ AllGoto("finish 1")
    /\ UNCHANGED <<job, dataVars, healthy>>

Refuses(es) == \E i \in DOMAIN es : es[i].hour < 0

\* mapRange of rank r: the lines of its range ...
Map(r) ==
    /\ pc[r] = "map"
    /\ LET run == ForEachLine(file, RangeStart(file.size, r, Procs), RangeStart(file.size, r + 1, Procs))
       IN  IF run.status = "failed" \/ Refuses(EntriesAt(run.lines)) THEN Fatal
           ELSE /\ mapped' = [mapped EXCEPT ![r] = run.lines]
                /\ Goto(r, "combine")
                /\ UNCHANGED <<entries, planVars, moveVars, reduceVars, rootVars>>
    /\ UNCHANGED <<job, healthy>>

\* ... and what it ships of them
Combine(r) ==
    /\ pc[r] = "combine"
    /\ LET es == EntriesAt(mapped[r])
       IN  entries' = [entries EXCEPT ![r] = IF job.combine THEN Combined(es) ELSE es]
    /\ Goto(r, "agree")
    /\ UNCHANGED <<job, mapped, planVars, moveVars, reduceVars, rootVars, healthy>>

\* MPI_File_close, the end of the phase and agree()
Agree ==
    /\ AllAt("agree")
    /\ LET es == EntriesAt(Gathered(mapped))
           hours == {es[i].hour : i \in DOMAIN es}
       IN  view' = IF hours = {} THEN NoView
                   ELSE [minHour |-> Min(hours), maxHour |-> Max(hours), records |-> Len(es), cars |-> Cars(es)]
    /\ AllGoto("plan")
    /\ UNCHANGED <<job, mapVars, owner, moveVars, reduceVars, rootVars, healthy>>

span == view.maxHour - view.minHour + 1
AfterPlan == IF job.trace THEN "trace map" ELSE "shuffle"

\* A rank gives up when there are no records, or builds its partitioner, for
\* which two of the partitions need the weights of the hours.
Plan(r) ==
    /\ pc[r] = "plan"
    /\ Goto(r, IF view.records = 0 THEN "finish 1"
               ELSE IF job.partition \in {"weighted", "hybrid"} THEN "weigh" ELSE AfterPlan)
    /\ owner' = IF job.partition = "block"
                THEN [owner EXCEPT ![r] = BlockOwners(span, reducers)] ELSE owner
    /\ UNCHANGED <<job, mapVars, view, moveVars, reduceVars, rootVars, healthy>>

\* globalHourWeights, and the owners every rank computes from them
Weight ==
    LET es == Gathered(entries)
    IN  [h \in 1 .. span |-> Cardinality({i \in DOMAIN es : es[i].hour = view.minHour + h - 1})]

Weigh ==
    /\ AllAt("weigh")
    /\ owner' = [r \in Ranks |-> IF job.partition = "hybrid" THEN HybridOwners(Weight, reducers)
                                 ELSE WeightedOwners(Weight, reducers)]
    /\ AllGoto(AfterPlan)
    /\ UNCHANGED <<job, mapVars, view, moveVars, reduceVars, rootVars, healthy>>

\* mapTraceText of rank r: its range, the lines it mapped, and its entries with
\* the reducer of each
Emitted(r) ==
    [from |-> RangeStart(file.size, r, Procs), to |-> RangeStart(file.size, r + 1, Procs),
     lines |-> Only(mapped[r], LAMBDA l : l[1] < l[2]),
     entries |-> [i \in DOMAIN entries[r] |-> <<entries[r][i], Destination(r, entries[r][i])>>]]

\* planTraceText: the owner of every hour, for hours that have one
Planned ==
    IF job.partition = "light" THEN <<>>
    ELSE [h \in 1 .. span |->
            IF job.partition = "hybrid" /\ owner[0][h] = SplitHour THEN SplitHour
            ELSE Destination(0, [hour |-> view.minHour + h - 1, light |-> 0, cars |-> 0])]

\* printBlocks of the map step, and the plan
TraceMap ==
    /\ AllAt("trace map")
    /\ printed' = [printed EXCEPT !.map = [r \in 1 .. Procs |-> Emitted(r - 1)], !.plan = Planned]
    /\ AllGoto("shuffle")
    /\ UNCHANGED <<job, mapVars, planVars, moveVars, reduceVars, ranked, collected, checked, healthy>>

Shuffle ==
    /\ AllAt("shuffle")
    /\ received' = [r \in Ranks |->
                      [s \in 1 .. Procs |-> Only(entries[s - 1], LAMBDA e : Destination(s - 1, e) = r)]]
    /\ sent' = [s \in Ranks |-> [r \in 1 .. Procs |-> Len(received'[r - 1][s + 1])]]
    /\ AllGoto("reduce")
    /\ UNCHANGED <<job, mapVars, planVars, reduceVars, rootVars, healthy>>

\* Mutant: a rank that does not reduce skips the collectives to come.
AfterReduceIdle(r) ==
    IF r >= reducers THEN "finish 0" ELSE IF job.trace THEN "trace reduce" ELSE "gather"

AfterReduce(r) == IF job.trace THEN "trace reduce" ELSE "gather"

\* The trace is taken first: reduceReceived merges the runs where they are.
Reduce(r) ==
    /\ pc[r] = "reduce"
    /\ partials' = IF job.trace /\ r < reducers THEN [partials EXCEPT ![r] = Partials(received[r])] ELSE partials
    /\ IF r < reducers
       THEN \E merged \in {MergeRuns(received[r])} : \E totals \in {Totals(merged)} :
               /\ received' = [received EXCEPT ![r] = <<merged>>]
               /\ keys' = [keys EXCEPT ![r] = Len(totals)]
               /\ candidates' = [candidates EXCEPT ![r] = Candidates(totals, job.top)]
       ELSE UNCHANGED <<received, keys, candidates>>
    /\ Goto(r, AfterReduce(r))
    /\ UNCHANGED <<job, mapVars, planVars, sent, rootVars, healthy>>

\* printBlocks of the reduce step
TraceReduce ==
    /\ AllAt("trace reduce")
    /\ printed' = [printed EXCEPT !.reduce = [r \in 1 .. Procs |-> partials[r - 1]]]
    /\ AllGoto("gather")
    /\ UNCHANGED <<job, mapVars, planVars, moveVars, reduceVars, ranked, collected, checked, healthy>>

\* The counters of RankStats, of which remote ones are not for oneself
Counters(r) ==
    [records |-> Len(EntriesAt(mapped[r])), mapped |-> Len(entries[r]),
     local |-> sent[r][r + 1], remote |-> SumOver((1 .. Procs) \ {r + 1}, LAMBDA q : sent[r][q]),
     received |-> Len(FlattenSeq(received[r])), keys |-> keys[r], candidates |-> Len(candidates[r])]

\* collect: the statistics of every rank, its range, and its row of the matrix
Collect ==
    [r \in 1 .. Procs |->
        [stats |-> Counters(r - 1),
         from |-> RangeStart(file.size, r - 1, Procs), to |-> RangeStart(file.size, r, Procs),
         row |-> IF job.matrix \/ job.trace THEN sent[r - 1] ELSE <<>>]]

\* gatherEntries of the candidates, mergeCandidates on rank 0, and collect
Gather ==
    /\ AllAt("gather")
    /\ \E all \in {Gathered(candidates)} : ranked' = MergeCandidates(all, job.top)
    /\ collected' = Collect
    /\ AllGoto(IF job.verify THEN "verify" ELSE "report")
    /\ UNCHANGED <<job, mapVars, planVars, moveVars, reduceVars, checked, printed, healthy>>

\* gatherEntries of the totals, in the order the checksum takes them
Verify ==
    /\ AllAt("verify")
    /\ \E all \in {Gathered([r \in Ranks |-> IF r < reducers THEN Totals(received[r][1]) ELSE <<>>])} :
          checked' = Sorted(all, KeyLess)
    /\ AllGoto("report")
    /\ UNCHANGED <<job, mapVars, planVars, moveVars, reduceVars, ranked, collected, printed, healthy>>

\* printSummary
Summary ==
    LET sum(f(_)) == SumOver(1 .. Procs, f)
    IN  [records |-> view.records, cars |-> view.cars, hours |-> span,
         keys |-> sum(LAMBDA r : collected[r].stats.keys), shuffled |-> sum(LAMBDA r : collected[r].stats.mapped),
         remote |-> sum(LAMBDA r : collected[r].stats.remote),
         split |-> IF job.partition = "hybrid" THEN Cardinality({h \in 1 .. span : owner[0][h] = SplitHour}) ELSE 0,
         imbalance |-> Imbalance([r \in 1 .. reducers |-> collected[r].stats.received]),
         matrix |-> [r \in 1 .. Procs |-> collected[r].row]]

\* Rank 0 prints, and runPhases returns. A summary file that does not open is
\* not written.
Report(r) ==
    /\ pc[r] = "report"
    /\ IF r # 0 THEN UNCHANGED printed
       ELSE \E opened \in IF job.summary THEN BOOLEAN ELSE {FALSE} :
               printed' = [printed EXCEPT !.shown = Shown(ranked, job.hours), !.summary = <<Summary>>,
                                          !.written = IF opened THEN ByHour(ranked) ELSE <<>>]
    /\ Goto(r, "finish 0")
    /\ UNCHANGED <<job, mapVars, planVars, moveVars, reduceVars, ranked, collected, checked, healthy>>

\* MPI_Finalize, and the exit code of every rank
Finish ==
    /\ \A r \in Ranks : pc[r] \in {"finish 0", "finish 1"}
    /\ pc' = [r \in Ranks |-> IF pc[r] = "finish 0" THEN "exit 0" ELSE "exit 1"]
    /\ UNCHANGED <<job, dataVars, healthy>>

Ended == {"exit 0", "exit 1", "killed"}

\* std::bad_alloc in runPhases on rank r
OutOfMemory(r) ==
    /\ pc[r] \notin Ended \union {"configure", "finish 0", "finish 1"}
    /\ healthy' = FALSE
    /\ Fatal
    /\ UNCHANGED job

Collective == Open \/ Agree \/ Weigh \/ TraceMap \/ Shuffle \/ TraceReduce \/ Gather \/ Verify \/ Finish
Local(r)   == Configure(r) \/ Map(r) \/ Combine(r) \/ Plan(r) \/ Reduce(r) \/ Report(r)

\* A read of forEachLine that fails or is short
ReadFails(r) ==
    /\ pc[r] = "map"
    /\ healthy' = FALSE
    /\ Fatal
    /\ UNCHANGED job

Next == Collective \/ \E r \in Ranks : Local(r) \/ ReadFails(r) \/ OutOfMemory(r)

Spec == Init /\ [][Next]_vars

\* Rank r leaves a place where it does not wait for others; Local(r) does so
\* at each of them.
Moves(r) ==
    /\ pc[r] \in {"configure", "map", "combine", "plan", "reduce", "report"}
    /\ \E place \in {"open", "combine", "agree", "weigh", AfterPlan, AfterReduce(r), "finish 0", "finish 1"} :
          /\ place # pc[r]
          /\ Goto(r, place)

\* Every process runs, and a collective ends once all of them are in it.
FairSpec == Spec /\ WF_vars(Collective) /\ \A r \in Ranks : WF_pc(Moves(r))

-----------------------------------------------------------------------------
Places == {"configure", "open", "map", "combine", "agree", "plan", "weigh", "trace map", "shuffle", "reduce",
           "trace reduce", "gather", "verify", "report", "finish 0", "finish 1"} \union Ended
EntryRuns == Seq([hour : Nat, light : Nat, cars : Nat])

\* Every hour has a reducer below the reducer count or is split.
TypeOK ==
    /\ pc \in [Ranks -> Places]
    /\ mapped \in [Ranks -> Seq(Nat \X Nat)]
    /\ entries \in [Ranks -> EntryRuns]
    /\ view \in [minHour : Nat, maxHour : Nat, records : Nat, cars : Nat]
    /\ owner \in [Ranks -> Seq({SplitHour} \union 0 .. reducers - 1)]
    /\ sent \in [Ranks -> Seq(Nat)]
    /\ received \in [Ranks -> Seq(EntryRuns)]
    /\ keys \in [Ranks -> Nat] /\ candidates \in [Ranks -> EntryRuns]
    /\ ranked \in EntryRuns /\ checked \in EntryRuns
    /\ healthy \in BOOLEAN

Early == [agree |-> {"configure", "open", "map", "combine"},
          reduce |-> {"configure", "open", "map", "combine", "agree", "plan", "weigh", "trace map", "shuffle"}]

\* Every rank has come to place l, in a job that runs.
Past(l) == Accepted /\ \A r \in Ranks : pc[r] \notin Early[l] \union {"finish 1", "exit 1", "killed"}

(* "Every line is read exactly once across all ranks": wherever the ranges *)
(* cut the file, inside a line, on a boundary or several times in one      *)
(* line, the ranks together are handed the lines of the file, in order;    *)
(* and what they hold then and later is of its type (TypeOK).              *)
LinesOnce == TypeOK /\ (Past("agree") => Gathered(mapped) = file.lines)

(* Every key has one reducer, and only the ranks that reduce receive any:  *)
(* a total that is complete on its reducer is never split.                 *)
OneReducer ==
    Past("reduce") =>
        LET keysOf(r) == {Key(e) : e \in UNION {ToSet(received[r][s]) : s \in DOMAIN received[r]}}
        IN  \A r, s \in Ranks : r # s => /\ keysOf(r) \intersect keysOf(s) = {}
                                         /\ r >= reducers => keysOf(r) = {}

(* "An hour is split when it is heavier than that room ... so an hour that *)
(* only becomes too heavy once another has been spread is caught too": the *)
(* hours that stay whole are each no heavier than one reducer's share of   *)
(* them, and owners never decrease with the hour.                          *)
HybridFits ==
    job.partition = "hybrid" /\ Past("reduce") =>
        \A r \in Ranks :
            LET whole == {h \in 1 .. span : owner[r][h] # SplitHour}
                room  == SumOver(whole, LAMBDA h : Weight[h])
            IN  /\ \A h \in whole : Weight[h] * reducers <= room
                /\ \A g, h \in whole : g < h /\ Weight[h] > 0 => owner[r][g] <= owner[r][h]

(* The two together: what the owners every rank computes by itself must    *)
(* agree on, and respect.                                                  *)
OwnersSound == OneReducer /\ HybridFits

\* What one process that reads the file from its start counts.
Counted == {t \in ToSet(Combined(EntriesAt(file.lines))) : t.cars # 0}
InRank(a, b) == a.hour < b.hour \/ (a.hour = b.hour /\ BusierFirst(a, b))
Ranking ==
    InOrderOf({t \in Counted : Cardinality({u \in Counted : u.hour = t.hour /\ BusierFirst(u, t)}) < job.top}, InRank)

(* What rank 0 ranks and writes is what a sequential count of the file     *)
(* gives: the busiest lights of every hour, the hours asked for on the     *)
(* console and all of them in the file, and under --verify every total in  *)
(* key order, whatever the ranges, combiner, partition and hashes.         *)
RankingIsCount ==
    LET hours == SetToSortSeq({t.hour : t \in Counted}, <)
        lists == [i \in DOMAIN hours |-> Only(Ranking, LAMBDA t : t.hour = hours[i])]
    IN  /\ ranked = Ranking
        /\ printed.shown = SubSeq(lists, 1, Min({job.hours, Len(lists)}))
        /\ printed.written \in {<<>>} \union (IF job.summary THEN {lists} ELSE {})
        /\ job.verify => checked = InOrderOf(Counted, KeyLess)

(* The summary adds up: the keys counted by the reducers are the keys of   *)
(* the file, the entries shipped are those that arrived, from oneself or   *)
(* from others, and the matrix has them by its rows and by its columns.    *)
SummaryIsCount ==
    LET s == printed.summary[1]
        all == EntriesAt(file.lines)
        rows(r) == SumOver(1 .. Procs, LAMBDA q : s.matrix[r][q])
        columns(r) == SumOver(1 .. Procs, LAMBDA q : s.matrix[q][r])
    IN  /\ s.records = Len(all) /\ s.cars = Cars(all) /\ s.keys = Cardinality(Counted)
        /\ s.shuffled = SumOver(1 .. Procs, LAMBDA r : collected[r].stats.received)
        /\ \A r \in 1 .. Procs :
              collected[r].stats.local + collected[r].stats.remote = collected[r].stats.mapped
        /\ s.shuffled >= s.keys /\ (job.combine => s.shuffled <= Procs * s.keys)
        /\ s.imbalance[1] >= s.imbalance[2] /\ s.imbalance[1] <= reducers * s.imbalance[2]
        /\ job.matrix => \A r \in 1 .. Procs : rows(r) = collected[r].stats.mapped /\ columns(r) = collected[r].stats.received

(* The trace tells the same story: every entry goes where the plan says    *)
(* its hour goes, if the hour is whole; every partial shown was emitted by *)
(* the rank it names, for the reducer that shows it, although the runs are *)
(* merged where they lie; and their sums are the totals.                   *)
TraceIsCount ==
    LET emitted(s) == ToSet(printed.map[s].entries)
        shown(r)   == ToSet(printed.reduce[r])
        entry(p)   == [hour |-> p.hour, light |-> p.light, cars |-> p.cars]
    IN  /\ job.partition # "light" =>
              \A s \in 1 .. Procs : \A e \in emitted(s) :
                 printed.plan[e[1].hour - view.minHour + 1] \in {SplitHour, e[2]}
        /\ \A r \in 1 .. Procs : \A k \in shown(r) : \A p \in ToSet(k.parts) :
              <<entry(p), r - 1>> \in emitted(p.source + 1)
        /\ Counted = {[entry(k.parts[1]) EXCEPT !.cars = k.sum] :
                         k \in {q \in UNION {shown(r) : r \in 1 .. Procs} : q.sum # 0}}

(* The three together, of a job that ends with 0.                          *)
ReportIsCount ==
    pc[0] = "exit 0" /\ Accepted => RankingIsCount /\ SummaryIsCount /\ (job.trace => TraceIsCount)

(* A job is killed only for a line that is refused or too long, for a word *)
(* that is no number, or for a read or an allocation that failed, and the  *)
(* ranks leave with one code, 0 only after a report or for help.           *)
EndExplained ==
    /\ (\E r \in Ranks : pc[r] = "killed") /\ healthy /\ job.words # "no number" =>
          \E i \in DOMAIN file.lines : \/ job.entries[i].hour < 0
                                        \/ file.lines[i][2] - file.lines[i][1] > MaxLine
    /\ \A r, s \in Ranks : pc[r] = "exit 0" => pc[s] = "exit 0"
    /\ pc[0] = "exit 0" => printed.summary # <<>> \/ job.words = "help"

(* Every job ends on every rank: no rank waits in a collective that        *)
(* another one does not reach.                                             *)
RunEnds == <>(\A r \in Ranks : pc[r] \in Ended)
=============================================================================
