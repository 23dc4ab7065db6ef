-------------------------- MODULE SecurityMonitor --------------------------
(***************************************************************************)
(* The interrupt-driven room monitor of task-m1/taskM1.cpp: three          *)
(* interrupt handlers that set flags, and the super loop that drains them. *)
(*                                                                         *)
(* A handler runs to its end between two steps of the loop, and a step of  *)
(* the loop ends at its next access to something a handler writes.  A pin  *)
(* is TRUE when its line is low, which is a pressed button.                *)
(***************************************************************************)
EXTENDS Naturals

CONSTANTS Debounce,     \* DEBOUNCE_MS, in units of the clock
          ClockMod,     \* the values of an unsigned long
          StatusPeriod  \* STATUS_PERIOD_S

ASSUME ClockAssumption ==
    /\ Debounce \in Nat /\ ClockMod \in Nat \ {0} /\ Debounce < ClockMod
    /\ StatusPeriod \in Nat \ {0}

Pins == {"arm", "door"}   \* PB0 and PB1

VARIABLES pins, pcif, enabled,   \* the port, its interrupt request and mask (hardware)
          now,                   \* millis()
          motionFlag, pciFlag, portBSnapshot, timerTick,   \* handed from the handlers to loop
          pc, snapshot,          \* the place in loop, and processPinChange's copy
          armed, alarmActive, doorOpen, lastPortB,
          lastChange,            \* lastArmChange and lastDoorChange
          statusCounter, alarmPin,
          quiet                  \* no pin has changed since setup (history)

hardwareVars == <<pins, pcif, enabled>>
handoffVars  == <<motionFlag, pciFlag, portBSnapshot, timerTick>>
systemVars   == <<armed, alarmActive, doorOpen, lastPortB, lastChange>>
outputVars   == <<statusCounter, alarmPin>>
monitorVars == <<hardwareVars, now, handoffVars, pc, snapshot, systemVars, outputVars, quiet>>

Levels == [Pins -> BOOLEAN]

MonitorInit ==
    /\ pins \in Levels /\ pcif = FALSE /\ enabled = FALSE
    /\ now = 0
    /\ motionFlag = FALSE /\ pciFlag = FALSE /\ timerTick = FALSE
    /\ portBSnapshot = [p \in Pins |-> TRUE]
    /\ pc = "baseline" /\ snapshot = portBSnapshot
    /\ armed = FALSE /\ alarmActive = FALSE /\ doorOpen = FALSE
    /\ lastPortB = portBSnapshot
    /\ lastChange = [p \in Pins |-> 0]
    /\ statusCounter = 0 /\ alarmPin = FALSE
    /\ quiet = TRUE

-----------------------------------------------------------------------------
(* The hardware and the handlers *)

\* A line changes. It requests an interrupt once the pin is unmasked.
PinChange(p) ==
    /\ pins' = [pins EXCEPT ![p] = ~@]
    /\ pcif' = (pcif \/ enabled)
    /\ quiet' = (quiet /\ ~enabled)
    /\ UNCHANGED <<enabled, now, handoffVars, pc, snapshot, systemVars, outputVars>>

TimePasses ==
    /\ now' = (now + 1) % ClockMod
    /\ UNCHANGED <<hardwareVars, handoffVars, pc, snapshot, systemVars, outputVars, quiet>>

\* Mutant: a snapshot the loop has not taken yet is not overwritten.
LatchFirst == IF pciFlag THEN portBSnapshot ELSE pins

Latch == pins

\* PCINT0_vect
PinChangeIsr ==
    /\ pcif
    /\ pcif' = FALSE
    /\ portBSnapshot' = Latch
    /\ pciFlag' = TRUE
    /\ UNCHANGED <<pins, enabled, now, motionFlag, timerTick, pc, snapshot, systemVars, outputVars, quiet>>

\* A rising edge of the motion sensor runs motionISR.
MotionIsr ==
    /\ pc # "baseline"
    /\ motionFlag' = TRUE
    /\ UNCHANGED <<hardwareVars, now, pciFlag, portBSnapshot, timerTick, pc, snapshot, systemVars,
                   outputVars, quiet>>

\* TIMER1_COMPA_vect
TimerIsr ==
    /\ enabled
    /\ timerTick' = TRUE
    /\ UNCHANGED <<hardwareVars, now, motionFlag, pciFlag, portBSnapshot, pc, snapshot, systemVars,
                   outputVars, quiet>>

-----------------------------------------------------------------------------
(* setup *)

\* lastPortB is the port before its interrupt is enabled.
Baseline ==
    /\ pc = "baseline"
    /\ lastPortB' = pins
    /\ pc' = "enable"
    /\ UNCHANGED <<hardwareVars, now, handoffVars, snapshot, armed, alarmActive, doorOpen, lastChange,
                   outputVars, quiet>>

Enable ==
    /\ pc = "enable"
    /\ enabled' = TRUE
    /\ pc' = "pci"
    /\ UNCHANGED <<pins, pcif, now, handoffVars, snapshot, systemVars, outputVars, quiet>>

-----------------------------------------------------------------------------
(* loop *)

\* Mutant: && where the code has ||.
TriggersBoth(isArmed, motionEvent, isOpen) == isArmed /\ motionEvent /\ isOpen

\* The test of evaluateAlarm
Triggers(isArmed, motionEvent, isOpen) == isArmed /\ (motionEvent \/ isOpen)

\* The flag a test of loop looks at, the step it leads to, and the next test.
TestFlag(from, flag, to, else) ==
    /\ pc = from
    /\ pc' = IF flag THEN to ELSE else
    /\ UNCHANGED <<hardwareVars, now, handoffVars, snapshot, systemVars, outputVars, quiet>>

Test ==
    \/ TestFlag("pci", pciFlag, "copy", "motion")
    \/ TestFlag("motion", motionFlag, "evaluate", "timer")
    \/ TestFlag("timer", timerTick, "tick", "output")

\* processPinChange with the interrupts masked
Copy ==
    /\ pc = "copy"
    /\ snapshot' = portBSnapshot
    /\ pciFlag' = FALSE
    /\ pc' = "process"
    /\ UNCHANGED <<hardwareVars, now, motionFlag, portBSnapshot, timerTick, systemVars, outputVars, quiet>>

\* A press of p that the debounce window lets through.
Pressed(p) ==
    /\ snapshot[p] /\ ~lastPortB[p]
    /\ (now + ClockMod - lastChange[p]) % ClockMod > Debounce

\* The alarm after the arm button was handled
AlarmAfterArming(nowArmed) == nowArmed /\ alarmActive

\* The rest of processPinChange: the arm button, then the door.
Process ==
    /\ pc = "process"
    /\ armed' = IF Pressed("arm") THEN ~armed ELSE armed
    /\ doorOpen' = IF Pressed("door") THEN ~doorOpen ELSE doorOpen
    /\ alarmActive' = \/ (IF Pressed("arm") THEN AlarmAfterArming(armed') ELSE alarmActive)
                      \/ Pressed("door") /\ Triggers(armed', FALSE, doorOpen')
    /\ lastChange' = [p \in Pins |-> IF Pressed(p) THEN now ELSE lastChange[p]]
    /\ lastPortB' = snapshot
    /\ snapshot' = [p \in Pins |-> TRUE]   \* the copy is local to the call
    /\ pc' = "motion"
    /\ UNCHANGED <<hardwareVars, now, handoffVars, outputVars, quiet>>

Evaluate ==
    /\ pc = "evaluate"
    /\ motionFlag' = FALSE
    /\ alarmActive' = (alarmActive \/ Triggers(armed, TRUE, doorOpen))
    /\ pc' = "timer"
    /\ UNCHANGED <<hardwareVars, now, pciFlag, portBSnapshot, timerTick, snapshot, armed, doorOpen,
                   lastPortB, lastChange, outputVars, quiet>>

NextStatus == IF statusCounter + 1 < StatusPeriod THEN statusCounter + 1 ELSE 0

\* processTimerTick
Tick ==
    /\ pc = "tick"
    /\ timerTick' = FALSE
    /\ statusCounter' = NextStatus
    /\ pc' = "output"
    /\ UNCHANGED <<hardwareVars, now, motionFlag, pciFlag, portBSnapshot, snapshot, systemVars,
                   alarmPin, quiet>>

Output ==
    /\ pc = "output"
    /\ alarmPin' = alarmActive
    /\ pc' = "pci"
    /\ UNCHANGED <<hardwareVars, now, handoffVars, snapshot, systemVars, statusCounter, quiet>>

Setup == Baseline \/ Enable
Loop  == Test \/ Copy \/ Process \/ Evaluate \/ Tick \/ Output

MonitorNext ==
    \/ Setup \/ Loop
    \/ PinChangeIsr \/ MotionIsr \/ TimerIsr
    \/ (\E p \in Pins : PinChange(p)) \/ TimePasses

MonitorSpec == MonitorInit /\ [][MonitorNext]_monitorVars

\* The processor runs loop between the handlers, and serves a request.
MonitorFairSpec == MonitorSpec /\ WF_monitorVars(Setup) /\ WF_monitorVars(Loop) /\ WF_monitorVars(PinChangeIsr)

-----------------------------------------------------------------------------
\* The millisecond clock wraps and the status counter restarts at its period.
MonitorTypeOK ==
    /\ pins \in Levels /\ pcif \in BOOLEAN /\ enabled \in BOOLEAN
    /\ now \in 0 .. ClockMod - 1
    /\ motionFlag \in BOOLEAN /\ pciFlag \in BOOLEAN /\ timerTick \in BOOLEAN
    /\ portBSnapshot \in Levels /\ snapshot \in Levels /\ lastPortB \in Levels
    /\ pc \in {"baseline", "enable", "pci", "copy", "process", "motion", "evaluate", "timer", "tick",
               "output"}
    /\ armed \in BOOLEAN /\ alarmActive \in BOOLEAN /\ doorOpen \in BOOLEAN
    /\ lastChange \in [Pins -> 0 .. ClockMod - 1]
    /\ statusCounter \in 0 .. StatusPeriod - 1 /\ alarmPin \in BOOLEAN
    /\ quiet \in BOOLEAN

\* The port as loop knows it.
Known == IF pc = "process" THEN snapshot ELSE lastPortB

(* No pin change is lost between the handler and loop: when no request and *)
(* no flag is pending, loop knows the port as it is. Changes between the   *)
(* baseline and the enabling of the interrupt count from the next change.  *)
(* The clock and the status counter stay in their range (MonitorTypeOK).   *)
NoChangeLost ==
    /\ MonitorTypeOK
    /\ ~quiet /\ ~pcif /\ ~pciFlag => Known = pins

(* Everything a handler announces is answered in time: a motion while      *)
(* armed raises the alarm unless the system is disarmed first, the known   *)
(* port follows the pins, and the alarm pin follows the alarm. The door    *)
(* opening while armed raises the alarm there and then, also when both     *)
(* buttons arrive in one snapshot, and only disarming ends an alarm.       *)
(* evaluateAlarm runs on these two events alone: arming with the door open *)
(* raises none.                                                            *)
Answered ==
    /\ motionFlag /\ armed ~> alarmActive \/ ~armed
    /\ [][~doorOpen /\ doorOpen' /\ armed' => alarmActive']_monitorVars
    /\ [][alarmActive /\ ~alarmActive' => ~armed']_monitorVars
    /\ pciFlag ~> ~pciFlag
    /\ timerTick ~> ~timerTick
    /\ alarmActive ~> alarmPin \/ ~alarmActive
    /\ ~alarmActive ~> ~alarmPin \/ alarmActive
=============================================================================
