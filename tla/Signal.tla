------------------------------- MODULE Signal -------------------------------
(***************************************************************************)
(* The actuated traffic signal of citysim (m4t1d/src/signal.rs): which     *)
(* approaches an intersection lets go, and the phase of its next tick.     *)
(***************************************************************************)
EXTENDS Naturals

CONSTANTS MinGreen, MaxGreen,  \* --min-green and --max-green, in ticks
          ElapsedMax           \* the largest value of the u16 elapsed

\* The command line raises max_green to min_green, and bounds neither by u16.
ASSUME GreenAssumption ==
    /\ MinGreen \in Nat /\ MaxGreen \in Nat
    /\ MinGreen <= MaxGreen
    /\ ElapsedMax \in Nat

IsGreen(phase, d) == d % 2 = phase

\* elapsed.saturating_add(1)
Held(elapsed) == IF elapsed < ElapsedMax THEN elapsed + 1 ELSE ElapsedMax

Switches(held, greenWaiting, redWaiting) ==
    held >= MinGreen /\ redWaiting /\ (held >= MaxGreen \/ ~greenWaiting)

NextSignal(phase, elapsed, greenWaiting, redWaiting) ==
    IF Switches(Held(elapsed), greenWaiting, redWaiting)
    THEN [phase |-> 1 - phase, elapsed |-> 0]
    ELSE [phase |-> phase, elapsed |-> Held(elapsed)]
=============================================================================
