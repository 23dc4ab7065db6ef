--------------------------- MODULE MCSpinBarrier ---------------------------
(* Instances of SpinBarrier for TLC: three workers, two ticks, and a       *)
(* generation counter of two values, so that it wraps twice in a call.     *)
EXTENDS SpinBarrier
=============================================================================
