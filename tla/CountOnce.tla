----------------------------- MODULE CountOnce -----------------------------
(***************************************************************************)
(* What a run of the traffic simulator promises: the totals it reports     *)
(* hold every record of the input once, and it reports them exactly when   *)
(* no line of the input is refused.                                        *)
(***************************************************************************)
EXTENDS Naturals

VARIABLES records,   \* the records of the input
          bad,       \* whether the input has a line the program refuses
          tally,     \* tally[r]: how often r was added to the totals
          outcome    \* "running", "reported" or "aborted"

vars == <<records, bad, tally, outcome>>

Init ==
    /\ bad \in BOOLEAN
    /\ tally = [r \in records |-> 0]
    /\ outcome = "running"

Count ==
    /\ outcome = "running"
    /\ \E r \in records :
          /\ tally[r] = 0
          /\ tally' = [tally EXCEPT ![r] = 1]
    /\ UNCHANGED <<records, bad, outcome>>

Report ==
    /\ outcome = "running" /\ ~bad
    /\ \A r \in records : tally[r] = 1
    /\ outcome' = "reported"
    /\ UNCHANGED <<records, bad, tally>>

Abort ==
    /\ outcome = "running" /\ bad
    /\ outcome' = "aborted"
    /\ UNCHANGED <<records, bad, tally>>

Next == Count \/ Report \/ Abort

Spec == Init /\ [][Next]_vars
=============================================================================
