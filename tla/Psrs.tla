-------------------------------- MODULE Psrs --------------------------------
(***************************************************************************)
(* The distributed sorts of m3t2c: quicksort_mpi and quicksort_mpi_ocl,    *)
(* which share psrs.h and differ in how a rank sorts its own chunk, with   *)
(* the quicksort of Quicksort or on a device with the network of Bitonic.  *)
(*                                                                         *)
(* A rank goes through the stages of a run one after the other; a stage is *)
(* the code between two waits.  done[r] counts the stages rank r has       *)
(* finished, so that a barrier lets it on when no rank has finished fewer, *)
(* and a collective when the ranks it takes data from have come so far.    *)
(* What rank r hands to a collective stays in its own variables until the  *)
(* others have read it.                                                    *)
(***************************************************************************)
EXTENDS Bitonic, SequencesExt

CONSTANTS
    Jobs,     \* the program runs: program, processes, data set and --runs
    MaxKey    \* INT32_MAX

ASSUME PsrsAssumption ==
    /\ MaxKey \in Int
    /\ \A j \in Jobs :
         /\ j.program \in {"mpi", "mpi+ocl"}
         /\ j.procs \in Nat \ {0} /\ j.runs \in Nat
         /\ j.original \in Seq(Int) /\ \A i \in DOMAIN j.original : j.original[i] <= MaxKey
         /\ j.program = "mpi+ocl" => Padded(Len(j.original)) < 2 ^ (WordBits - 1)

VARIABLES
    job,        \* one of Jobs; it never changes
    done,       \* done[r]: the stages rank r has finished
    exit,       \* exit[r]: "no", the exit code, or "killed" by MPI_Abort
    work,       \* the array of rank 0
    local,      \* local[r]: the chunk of rank r
    samples,    \* samples[r]: what it sampled from its chunk
    pivots,     \* pivots[r]: the pivots it has been sent
    buckets,    \* buckets[r]: its chunk, cut at the pivots
    received,   \* received[r]: the keys it has been sent
    device      \* device[r]: the buffer of its device, and the launch that runs

dataVars == <<work, local, samples, pivots, buckets, received, device>>
vars == <<job, done, exit, dataVars>>

-----------------------------------------------------------------------------
Procs == job.procs
Ranks == 0 .. Procs - 1
Size  == Len(job.original)

Setup  == <<"configure", "setup">>
Stages == <<"copy", "scatter", "sort", "sample", "pivots", "bucket", "exchange", "merge", "gather", "verify">>

StageAfter(n) ==
    IF n < Len(Setup) THEN Setup[n + 1] ELSE Stages[1 + ((n - Len(Setup)) % Len(Stages))]

At(r, stage) == exit[r] = "no" /\ StageAfter(done[r]) = stage
Finish(r) == done' = [done EXCEPT ![r] = @ + 1]

\* MPI_Barrier, in front of the stage rank r is at
AllHere(r) == \A q \in Ranks : done[q] >= done[r]
RootIsThrough(r) == r # 0 => done[0] > done[r]

Usable == Procs = 1 \/ Size >= Procs * Procs

\* split: the first ranks get one key more.
ChunkSize(r) == (Size \div Procs) + (IF r < Size % Procs THEN 1 ELSE 0)
ChunkStart(r) == MapThenSumSet(ChunkSize, 0 .. r - 1)

Ascends(s) == \A i \in 1 .. Len(s) - 1 : s[i] <= s[i + 1]
Checksum(s) == FoldLeft(+, 0, s)

\* What a sort leaves of s.
InOrder(s) == SortSeq(s, <)

\* std::inplace_merge
Merge(s, t) ==
    LET from[i \in 1 .. Len(s) + 1, k \in 1 .. Len(t) + 1] ==
            IF i > Len(s) THEN SubSeq(t, k, Len(t))
            ELSE IF k > Len(t) \/ s[i] <= t[k] THEN <<s[i]>> \o from[i + 1, k]
            ELSE <<t[k]>> \o from[i, k + 1]
    IN  from[1, 1]

\* The keys of a sorted chunk up to and with key: std::upper_bound
UpperBound(s, key) == Cardinality({i \in DOMAIN s : s[i] <= key})

-----------------------------------------------------------------------------
NoDevice == [data |-> <<>>, k |-> 0, j |-> 0, items |-> {}, launches |-> 0]
PerRank(x) == [r \in 0 .. job.procs - 1 |-> x]

Init ==
    /\ job \in Jobs
    /\ done = PerRank(0) /\ exit = PerRank("no")
    /\ work = <<>> /\ local = PerRank(<<>>) /\ samples = PerRank(<<>>)
    /\ pivots = PerRank(<<>>) /\ buckets = PerRank(<<>>) /\ received = PerRank(<<>>)
    /\ device = PerRank(NoDevice)

\* Mutant: the abort ends only the rank that calls it.
AbortAlone(r) == exit' = [exit EXCEPT ![r] = "killed"] /\ UNCHANGED <<job, done, dataVars>>

\* MPI_Abort on rank r ends every rank that is left.
Abort(r) ==
    /\ exit' = [q \in Ranks |-> IF exit[q] = "no" THEN "killed" ELSE exit[q]]
    /\ UNCHANGED <<job, done, dataVars>>

\* Each rank looks at the options by itself.
Configure(r) ==
    /\ At(r, "configure")
    /\ IF Size > 0 /\ job.runs > 0 /\ Usable THEN Finish(r) /\ UNCHANGED exit
       ELSE exit' = [exit EXCEPT ![r] = "1"] /\ UNCHANGED done
    /\ UNCHANGED <<job, dataVars>>

OnDevice == job.program = "mpi+ocl"

\* pickDevice and buildKernel
Prepare(r) ==
    /\ At(r, "setup")
    /\ Finish(r)
    /\ UNCHANGED <<job, exit, dataVars>>

\* A call of OpenCL fails, or the kernel cannot be read or built: die.
DeviceFails(r) ==
    /\ OnDevice
    /\ At(r, "setup") \/ (At(r, "sort") /\ AllHere(r) /\ ChunkSize(r) > 1)
    /\ Abort(r)

\* Rank 0 begins a run with the data set; the program that has printed the
\* devices waits for all of them first.
Copy(r) ==
    /\ At(r, "copy")
    /\ OnDevice /\ done[r] = Len(Setup) => AllHere(r)
    /\ work' = IF r = 0 THEN job.original ELSE work
    /\ Finish(r)
    /\ UNCHANGED <<job, exit, local, samples, pivots, buckets, received, device>>

\* MPI_Scatterv
Scatter(r) ==
    /\ At(r, "scatter") /\ AllHere(r) /\ RootIsThrough(r)
    /\ local' = [local EXCEPT ![r] = SubSeq(work, ChunkStart(r) + 1, ChunkStart(r) + ChunkSize(r))]
    /\ Finish(r)
    /\ UNCHANGED <<job, exit, work, samples, pivots, buckets, received, device>>

-----------------------------------------------------------------------------
(* The local sort                                                          *)

\* The quicksort of the CPU, and a chunk of one key on either program
SortChunk(r) ==
    /\ At(r, "sort") /\ AllHere(r)
    /\ ~OnDevice \/ ChunkSize(r) <= 1
    /\ local' = [local EXCEPT ![r] = InOrder(@)]
    /\ Finish(r)
    /\ UNCHANGED <<job, exit, work, samples, pivots, buckets, received, device>>

Buffer(r) == Padded(ChunkSize(r))

\* The chunk goes to the device, padded with INT32_MAX, and the first launch
\* of the network begins.
Upload(r) ==
    /\ At(r, "sort") /\ AllHere(r)
    /\ OnDevice /\ ChunkSize(r) > 1 /\ device[r] = NoDevice
    /\ device' = [device EXCEPT ![r] =
         [data |-> [i \in 0 .. Buffer(r) - 1 |-> IF i < ChunkSize(r) THEN local[r][i + 1] ELSE MaxKey],
          k |-> 2, j |-> 1, items |-> LowerItems(Buffer(r), 1), launches |-> 1]]
    /\ UNCHANGED <<job, done, exit, work, local, samples, pivots, buckets, received>>

Sorting(r) == exit[r] = "no" /\ device[r] # NoDevice

\* A work-item of the launch runs; nothing orders it among the others.
WorkItem(r) ==
    /\ Sorting(r)
    /\ \E i \in device[r].items :
          device' = [device EXCEPT ![r].data = CompareExchange(@, i, device[r].j, device[r].k),
                                   ![r].items = @ \ {i}]
    /\ UNCHANGED <<job, done, exit, work, local, samples, pivots, buckets, received>>

\* The in-order queue starts a launch when the one before has finished.
Launch(r) ==
    LET next == NextLaunch(device[r].k, device[r].j) IN
    /\ Sorting(r) /\ device[r].items = {}
    /\ next.k <= Buffer(r)
    /\ device' = [device EXCEPT ![r] =
         [@ EXCEPT !.k = next.k, !.j = next.j,
                   !.items = IF next.j = 0 THEN {} ELSE LowerItems(Buffer(r), next.j),
                   !.launches = IF next.j = 0 THEN @ ELSE @ + 1]]
    /\ UNCHANGED <<job, done, exit, work, local, samples, pivots, buckets, received>>

\* The first keys are read back, without the padding.
ReadBack(r) ==
    /\ Sorting(r) /\ device[r].items = {}
    /\ NextLaunch(device[r].k, device[r].j).k > Buffer(r)
    /\ local' = [local EXCEPT ![r] = [i \in 1 .. ChunkSize(r) |-> device[r].data[i - 1]]]
    /\ device' = [device EXCEPT ![r] = NoDevice]
    /\ Finish(r)
    /\ UNCHANGED <<job, exit, work, samples, pivots, buckets, received>>

-----------------------------------------------------------------------------
(* Pivots, exchange and gather                                             *)

\* Evenly spaced keys of the sorted chunk, sent to rank 0
Sample(r) ==
    /\ At(r, "sample") /\ AllHere(r)
    /\ samples' = [samples EXCEPT ![r] =
         IF Procs = 1 THEN <<>> ELSE [i \in 1 .. Procs |-> local[r][(i - 1) * (ChunkSize(r) \div Procs) + 1]]]
    /\ Finish(r)
    /\ UNCHANGED <<job, exit, work, local, pivots, buckets, received, device>>

\* Mutant: every rank takes its pivots from its own samples.
ChosenAlone(r) == [i \in 1 .. Procs - 1 |-> samples[r][i + 1]]

\* Rank 0 sorts the samples and picks the pivots, the others are sent them.
Chosen(r) ==
    IF r # 0 THEN pivots[0]
    ELSE LET all == InOrder(FlattenSeq([q \in 1 .. Procs |-> samples[q - 1]]))
         IN  [i \in 1 .. Procs - 1 |-> all[i * Procs + 1]]

ChoosePivots(r) ==
    /\ At(r, "pivots")
    /\ Procs > 1 => IF r = 0 THEN AllHere(0) ELSE RootIsThrough(r)
    /\ pivots' = [pivots EXCEPT ![r] = Chosen(r)]
    /\ Finish(r)
    /\ UNCHANGED <<job, exit, work, local, samples, buckets, received, device>>

\* Where bucket q of rank r ends: never before the bucket in front of it.
BucketEnd(r, q) ==
    IF q = Procs - 1 THEN ChunkSize(r)
    ELSE Max({UpperBound(local[r], pivots[r][p]) : p \in 1 .. q + 1})

CutBuckets(r) ==
    /\ At(r, "bucket") /\ AllHere(r)
    /\ buckets' = [buckets EXCEPT ![r] =
         [q \in Ranks |-> SubSeq(local[r], 1 + (IF q = 0 THEN 0 ELSE BucketEnd(r, q - 1)), BucketEnd(r, q))]]
    /\ Finish(r)
    /\ UNCHANGED <<job, exit, work, local, samples, pivots, received, device>>

\* MPI_Alltoall and MPI_Alltoallv: the runs arrive in rank order.
Exchange(r) ==
    /\ At(r, "exchange") /\ AllHere(r)
    /\ received' = [received EXCEPT ![r] = [q \in 1 .. Procs |-> buckets[q - 1][r]]]
    /\ Finish(r)
    /\ UNCHANGED <<job, exit, work, local, samples, pivots, buckets, device>>

\* The runs are folded together one at a time.
MergeRuns(r) ==
    /\ At(r, "merge") /\ AllHere(r)
    /\ received' = [received EXCEPT ![r] = <<FoldLeft(Merge, <<>>, @)>>]
    /\ Finish(r)
    /\ UNCHANGED <<job, exit, work, local, samples, pivots, buckets, device>>

\* MPI_Gather of the sizes and MPI_Gatherv, for which rank 0 waits
Gather(r) ==
    /\ At(r, "gather") /\ AllHere(r)
    /\ r = 0 => \A q \in Ranks \ {0} : done[q] > done[0]
    /\ work' = IF r = 0 THEN FlattenSeq([q \in 1 .. Procs |-> received[q - 1][1]]) ELSE work
    /\ Finish(r)
    /\ UNCHANGED <<job, exit, local, samples, pivots, buckets, received, device>>

Verified == Ascends(work) /\ Checksum(work) = Checksum(job.original)

LastRun(r) == done[r] + 1 = Len(Setup) + job.runs * Len(Stages)

\* Rank 0 checks the result and gives up when it is wrong; the last run ends
\* the program.
Verify(r) ==
    /\ At(r, "verify") /\ AllHere(r)
    /\ IF r = 0 /\ ~Verified THEN Abort(r)
       ELSE /\ Finish(r)
            /\ exit' = IF LastRun(r) THEN [exit EXCEPT ![r] = "0"] ELSE exit
            /\ UNCHANGED <<job, dataVars>>

Ended == (\A r \in Ranks : exit[r] # "no") /\ UNCHANGED vars

Step(r) ==
    /\ r \in Ranks
    /\ \/ Configure(r) \/ Prepare(r) \/ Copy(r) \/ Scatter(r)
       \/ SortChunk(r) \/ Upload(r) \/ WorkItem(r) \/ Launch(r) \/ ReadBack(r)
       \/ Sample(r) \/ ChoosePivots(r) \/ CutBuckets(r) \/ Exchange(r)
       \/ MergeRuns(r) \/ Gather(r) \/ Verify(r)

Next == (\E r \in Ranks : Step(r) \/ DeviceFails(r)) \/ Ended

\* The processes of every job there is
AllRanks == UNION {0 .. j.procs - 1 : j \in Jobs}

\* Every process runs; nothing makes a device fail.
Spec == Init /\ [][Next]_vars /\ \A r \in AllRanks : WF_vars(Step(r))

-----------------------------------------------------------------------------
(* Properties                                                              *)

TypeOK ==
    /\ done \in [Ranks -> 0 .. Len(Setup) + job.runs * Len(Stages)]
    /\ exit \in [Ranks -> {"no", "0", "1", "killed"}]
    /\ work \in Seq(Int)
    /\ \A r \in Ranks :
         /\ local[r] \in Seq(Int) /\ samples[r] \in Seq(Int) /\ pivots[r] \in Seq(Int)
         /\ \A q \in DOMAIN buckets[r] : buckets[r][q] \in Seq(Int)
         /\ \A q \in DOMAIN received[r] : received[r][q] \in Seq(Int)

Between(r, first, last) ==
    \E i \in DOMAIN Stages : Stages[i] = StageAfter(done[r])
                          /\ \E f, l \in DOMAIN Stages : Stages[f] = first /\ Stages[l] = last /\ i \in f .. l

Scattered(r) == SubSeq(job.original, ChunkStart(r) + 1, ChunkStart(r) + ChunkSize(r))

\* A chunk is sorted when the barrier behind the local sort lets it on, with
\* the keys that were scattered to the rank: none of the padding, and no key
\* lost between two work-items, comes back from a device.  It has taken the
\* m(m+1)/2 launches bitonic.cl promises for 2^m elements.
ChunksSorted ==
    \A r \in Ranks :
        /\ Between(r, "sample", "verify") => local[r] = InOrder(Scattered(r))
        /\ device[r] # NoDevice /\ NextLaunch(device[r].k, device[r].j).k > Buffer(r) =>
             \E m \in 1 .. ChunkSize(r) : 2 ^ m = Buffer(r) /\ 2 * device[r].launches = m * (m + 1)

Occurrences(s, key) == Cardinality({i \in DOMAIN s : s[i] = key})
Permutes(s, t) == Len(s) = Len(t) /\ \A key \in ToSet(s) : Occurrences(s, key) = Occurrences(t, key)

\* "After step 6 every element on rank r is <= every element on rank r+1"
\* (psrs.h, above sort): once all ranks are through the exchange, no key is
\* lost or doubled by a cut among equal keys, by an empty bucket or by a part
\* that stays empty, and gathering the parts in rank order is enough.
PartsInOrder ==
    /\ TypeOK /\ ChunksSorted
    /\ (\A r \in Ranks : Between(r, "merge", "verify")) =>
         /\ Permutes(FlattenSeq([q \in 1 .. Procs |-> FlattenSeq(received[q - 1])]), job.original)
         /\ \A r \in Ranks \ {0} : \A low \in ToSet(FlattenSeq(received[r - 1])) :
               \A high \in ToSet(FlattenSeq(received[r])) : low <= high

\* What rank 0 verifies is the sorted data set, run after run, so the check of
\* a run never ends the program: a rank is ended by MPI_Abort only because a
\* device failed, and the ranks agree on whether the program can run at all.
ResultSorted ==
    /\ Between(0, "verify", "verify") \/ exit[0] = "0" => work = InOrder(job.original)
    /\ \A r \in Ranks : exit[r] = "killed" => OnDevice /\ ~Between(0, "verify", "verify")
    /\ \A r, q \in Ranks : exit[r] = "1" => exit[q] \in {"no", "1"}

\* The program ends, whatever rank reaches a barrier or a collective first and
\* whichever device fails: no rank is left waiting for one that is gone.
RunEnds == <>(\A r \in Ranks : exit[r] # "no")
=============================================================================
