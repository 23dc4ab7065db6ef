---------------------------- MODULE SignalTimer ----------------------------
(***************************************************************************)
(* One actuated signal, tick after tick, with cars that come to and leave  *)
(* the detectors of its four approaches as they please.                    *)
(***************************************************************************)
EXTENDS Signal

VARIABLES phase, elapsed,  \* as in NodeMeta
          waited   \* ticks that a car stood on a red detector without a break

vars == <<phase, elapsed, waited>>

Init == phase \in {0, 1} /\ elapsed = 0 /\ waited = 0

\* The end of step_b.
Tick(greenWaiting, redWaiting) ==
    LET next == NextSignal(phase, elapsed, greenWaiting, redWaiting)
    IN  /\ phase' = next.phase
        /\ elapsed' = next.elapsed
        /\ waited' = IF redWaiting /\ next.phase = phase THEN waited + 1 ELSE 0

Next == \E greenWaiting, redWaiting \in BOOLEAN : Tick(greenWaiting, redWaiting)

Spec == Init /\ [][Next]_vars

-----------------------------------------------------------------------------
\* The light is green for one axis, and its counter saturates at the u16's limit.
TypeOK == phase \in {0, 1} /\ elapsed \in 0 .. ElapsedMax /\ waited \in Nat

(* "switches once the red approaches are waiting and either the green side *)
(* has gone quiet or the maximum green time is up": no red approach has a  *)
(* waiting car for more than the maximum green time.                       *)
RedServed == waited <= MaxGreen
=============================================================================
