--------------------------- MODULE MCRepartition ---------------------------
(* An instance of Repartition for TLC: every combination of an empty and a *)
(* full block, and of short and long step times, in each phase.            *)
EXTENDS Repartition

\* The prefix sums of the cost vectors with entries from S.
Prefixes(S) ==
    {[i \in 0 .. Blocks |-> MapThenSumSet(LAMBDA j : c[j], 0 .. i - 1)] :
        c \in [0 .. Blocks - 1 -> S]}

FewOrManyCars == Prefixes({0, 9})
ShortOrLongA == Prefixes({0, 7})
ShortOrLongB == Prefixes({1, 3})
=============================================================================
