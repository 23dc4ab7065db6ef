------------------------------ MODULE Lockstep ------------------------------
(***************************************************************************)
(* What one call of run_ticks promises, whatever engine runs it: every     *)
(* worker computes its share of phase A and of phase B of every tick, no   *)
(* share of a phase is computed before every share of the phase before it, *)
(* and the call ends once, either returning after the last phase or        *)
(* panicking.                                                              *)
(***************************************************************************)
EXTENDS Naturals

CONSTANTS Workers,  \* the threads of the call
          Phases    \* phases in the call, two for every tick

VARIABLES done,     \* done[w]: shares w has computed
          outcome   \* "running", "returned" or "panicked"

vars == <<done, outcome>>

\* No worker computes more shares than the call has phases.
TypeOK ==
    /\ done \in [Workers -> 0 .. Phases]
    /\ outcome \in {"running", "returned", "panicked"}

Init ==
    /\ done = [w \in Workers |-> 0]
    /\ outcome = "running"

\* w computes its next share: the phase before it is complete everywhere.
Compute(w) ==
    /\ outcome = "running"
    /\ done[w] < Phases
    /\ \A v \in Workers : done[v] >= done[w]
    /\ done' = [done EXCEPT ![w] = @ + 1]
    /\ UNCHANGED outcome

Return ==
    /\ outcome = "running"
    /\ \A w \in Workers : done[w] = Phases
    /\ outcome' = "returned"
    /\ UNCHANGED done

Panic ==
    /\ outcome = "running"
    /\ outcome' = "panicked"
    /\ UNCHANGED done

Next == (\E w \in Workers : Compute(w)) \/ Return \/ Panic

Spec == Init /\ [][Next]_vars
=============================================================================
