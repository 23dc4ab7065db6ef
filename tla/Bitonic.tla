------------------------------ MODULE Bitonic ------------------------------
(***************************************************************************)
(* The sorting network of m3t2c: the kernel bitonic.cl, one work-item for  *)
(* each element, and the arithmetic of the host that launches it.  The     *)
(* data is a function of the index, from 0.                                *)
(***************************************************************************)
EXTENDS Integers, FiniteSetsExt

CONSTANT WordBits   \* the bits of a cl_uint

ASSUME WordAssumption == WordBits \in Nat \ {0}

\* nextPowerOfTwo
Padded(count) == 2 ^ Min({m \in 0 .. count : 2 ^ m >= count})

\* i ^ j, for a distance j that is a power of two
Partner(i, j) == IF (i \div j) % 2 = 0 THEN i + j ELSE i - j

\* Mutant: every run of the network ascends.
AscendingAlways(i, k) == TRUE

\* (i & k) == 0
Ascending(i, k) == (i \div k) % 2 = 0

\* The work-items that do something: the lower one of every pair.
LowerItems(size, j) == {i \in 0 .. size - 1 : Partner(i, j) > i}

\* bitonic_step for work-item i
CompareExchange(data, i, j, k) ==
    LET p == Partner(i, j)
    IN  IF p > i /\ (data[i] > data[p]) = Ascending(i, k)
        THEN [data EXCEPT ![i] = data[p], ![p] = data[i]] ELSE data

\* The launch after (k, j): the distance halves, then the run doubles as a
\* cl_uint does.
NextLaunch(k, j) ==
    IF j > 1 THEN [k |-> k, j |-> j \div 2]
    ELSE LET doubled == (2 * k) % 2 ^ WordBits IN [k |-> doubled, j |-> doubled \div 2]
=============================================================================
