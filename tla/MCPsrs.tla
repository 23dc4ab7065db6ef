------------------------------- MODULE MCPsrs -------------------------------
(* Instances of Psrs for TLC: the programs, their processes and the data. *)
EXTENDS Psrs

Job(program, procs, runs, keys) ==
    [program |-> program, procs |-> procs, runs |-> runs, original |-> keys]

Sequences(n, keys) == [1 .. n -> keys]
NonDecreasing(n, keys) == {s \in Sequences(n, keys) : Ascends(s)}

\* A local sort that is one step sees only which keys its chunk has.
Concatenations(n, keys) == {s \o t \o u : s, t, u \in NonDecreasing(n, keys)}

\* Data sets too small for the processes, and nothing to run.
Refused ==
    {Job(program, 3, 1, <<1, 2, 3, 4, 5, 6, 7, 8>>) : program \in {"mpi", "mpi+ocl"}}
    \union {Job("mpi", 2, 0, <<1, 2, 3, 4>>), Job("mpi+ocl", 2, 1, <<>>)}

\* Two and three processes, chunks of equal and of unequal length, all equal keys.
OnTheCpu ==
    {Job("mpi", 2, 1, s) : s \in Sequences(4, 0 .. 2) \union Sequences(5, {0, MaxKey})}
    \union {Job("mpi", 3, 1, s) : s \in Concatenations(3, 0 .. 2)}
    \union {Job("mpi", 3, 1, Append(s, 0)) : s \in Concatenations(3, 0 .. 1)}
    \union {Job("mpi", 3, 2, s) : s \in Concatenations(3, {2})}
    \union {Job("mpi", 1, 1, s) : s \in Sequences(3, 0 .. 1)}

\* One device with eight elements, keys of the padding's value among them; two
\* devices side by side; two runs; a chunk of a single key.
OnDevices ==
    {Job("mpi+ocl", 1, 1, s) : s \in Sequences(7, 0 .. 1) \union Sequences(5, {0, MaxKey})}
    \union {Job("mpi+ocl", 2, 1, s) : s \in Sequences(5, {0, MaxKey})}
    \union {Job("mpi+ocl", 2, 2, <<2, 1, 1, 0>>), Job("mpi+ocl", 1, 2, <<5>>)}

CheckedJobs == Refused \union OnTheCpu \union OnDevices
=============================================================================
