--------------------------- MODULE SensorPipeline ---------------------------
(***************************************************************************)
(* The sensor output of a citysim run: the loop of main.rs harvests a      *)
(* frame per window and hands it to the writer thread of sensors.rs        *)
(* through a bounded channel, and the GPU engine takes the buffers of its  *)
(* frames from a FramePool, to which a frame returns its buffer when it    *)
(* is dropped.                                                             *)
(*                                                                         *)
(* A frame is the number of its window.  Where an operation blocks, its    *)
(* action is not enabled.                                                  *)
(***************************************************************************)
EXTENDS Naturals, Sequences

CONSTANTS Windows,   \* windows in the run
          Depth,     \* frames the channel holds
          Frames     \* FRAMES, the buffers of the GPU engine

ASSUME RunAssumption == Windows \in Nat /\ Depth \in Nat \ {0} /\ Frames \in Nat \ {0}

VARIABLES options,           \* of the command line; they never change
          mpc, window,       \* main: place, windows run
          sent, confirmed,   \* SensorWriter
          txOpen, queue, rxOpen,   \* the channel of frames and its ends
          done, doneOpen,    \* the channel of confirmations: waiting, sender's end
          wpc, hand,         \* the writer: place, frame it holds
          summed, rows,      \* windows in the checksum, and in the file
          result,            \* what the writer thread returns
          allocated, spare,  \* the pool: buffers made, buffers back home
          outcome

mainVars   == <<mpc, window, sent, confirmed, outcome>>
writerVars == <<wpc, hand, summed, rows, result>>
frameChan  == <<txOpen, queue, rxOpen>>
doneChan   == <<done, doneOpen>>
poolVars   == <<allocated, spare>>
vars       == <<options, mainVars, writerVars, frameChan, doneChan, poolVars>>

NoFrame == 0

Pipeline == options.pipeline   \* --pipeline
HasFile  == options.file       \* --sensors is given
Gpu      == options.gpu        \* --backend cuda

Init ==
    /\ options \in [pipeline : BOOLEAN, file : BOOLEAN, gpu : BOOLEAN]
    /\ mpc = "run" /\ window = 0 /\ sent = 0 /\ confirmed = 0 /\ outcome = "running"
    /\ txOpen = TRUE /\ queue = <<>> /\ rxOpen = TRUE
    /\ done = 0 /\ doneOpen = TRUE
    /\ wpc = "open" /\ hand = NoFrame /\ summed = <<>> /\ rows = <<>> /\ result = "running"
    /\ allocated = 0 /\ spare = 0

-----------------------------------------------------------------------------
(* The frame pool *)

\* Mutant: a dropped frame keeps its buffer.
DropForgotten(n) == UNCHANGED poolVars

\* The buffers of n dropped frames go home.
Drop(n) ==
    /\ spare' = IF Gpu THEN spare + n ELSE spare
    /\ UNCHANGED allocated

\* Mutant: one buffer more than FRAMES.
MayAllocateOneMore == allocated <= Frames

MayAllocate == allocated < Frames

\* A returned buffer, or a new one while fewer than FRAMES exist.
Take ==
    IF ~Gpu THEN UNCHANGED poolVars
    ELSE \/ spare > 0 /\ spare' = spare - 1 /\ UNCHANGED allocated
         \/ spare = 0 /\ MayAllocate /\ allocated' = allocated + 1 /\ UNCHANGED spare

-----------------------------------------------------------------------------
(* main *)

\* One window: run_window and harvest.
RunWindow ==
    /\ mpc = "run" /\ window < Windows
    /\ Take
    /\ window' = window + 1
    /\ mpc' = "send"
    /\ UNCHANGED <<sent, confirmed, outcome, writerVars, frameChan, doneChan>>

\* The engine, a check or the window log fails: run() returns, and the process
\* ends without a join of the writer.
RunFails ==
    /\ mpc = "run"
    /\ mpc' = "exit" /\ outcome' = "failed"
    /\ UNCHANGED <<window, sent, confirmed, writerVars, frameChan, doneChan, poolVars>>

Room == Len(queue) < Depth

\* SensorWriter::send; a frame for a writer that is gone is dropped.
Send ==
    /\ mpc = "send"
    /\ \/ /\ rxOpen /\ Room
          /\ queue' = Append(queue, window)
          /\ sent' = sent + 1
          /\ UNCHANGED poolVars
       \/ /\ ~rxOpen
          /\ Drop(1)
          /\ UNCHANGED <<queue, sent>>
    /\ mpc' = IF Pipeline THEN "run" ELSE "wait"
    /\ UNCHANGED <<window, confirmed, outcome, txOpen, rxOpen, writerVars, doneChan>>

\* Mutant: a poll of the confirmations instead of a wait for one.
WaitOverPolled == confirmed >= sent \/ done = 0

\* send_and_wait leaves its loop.
WaitOver == confirmed >= sent \/ (done = 0 /\ ~doneOpen)

\* The loop of send_and_wait.
Wait ==
    /\ mpc = "wait"
    /\ \/ /\ confirmed < sent /\ done > 0
          /\ done' = done - 1
          /\ confirmed' = confirmed + 1
          /\ UNCHANGED mpc
       \/ WaitOver /\ mpc' = "run" /\ UNCHANGED <<done, confirmed>>
    /\ UNCHANGED <<window, sent, outcome, writerVars, frameChan, doneOpen, poolVars>>

\* SensorWriter::finish: close the channel, ...
Close ==
    /\ mpc = "run" /\ window = Windows
    /\ txOpen' = FALSE
    /\ mpc' = "join"
    /\ UNCHANGED <<window, sent, confirmed, outcome, queue, rxOpen, writerVars, doneChan, poolVars>>

\* ... join the writer and return what it returned. The checksum and the
\* snapshot of a run whose windows are all written may still fail.
Join ==
    /\ mpc = "join" /\ wpc = "ended"
    /\ mpc' = "exit"
    /\ outcome' \in IF result = "ok" THEN {"reported", "failed"} ELSE {"failed"}
    /\ UNCHANGED <<window, sent, confirmed, writerVars, frameChan, doneChan, poolVars>>

-----------------------------------------------------------------------------
(* writer_loop *)

\* The writer returns or unwinds: the frame it holds and those still queued are
\* dropped with the receiver, and the sender of done after that.
Leave(r, dropped) ==
    /\ result' = r /\ wpc' = "leaving"
    /\ hand' = NoFrame
    /\ rxOpen' = FALSE /\ queue' = <<>>
    /\ Drop(dropped)
    /\ UNCHANGED <<txOpen, doneChan, mainVars>>

Left ==
    /\ wpc = "leaving"
    /\ wpc' = "ended" /\ doneOpen' = FALSE
    /\ UNCHANGED <<hand, summed, rows, result, frameChan, done, poolVars, mainVars>>

\* File::create
Open ==
    /\ wpc = "open"
    /\ \/ wpc' = "recv" /\ UNCHANGED <<mainVars, hand, result, frameChan, doneChan, poolVars>>
       \/ /\ HasFile
          /\ result' = "error" /\ wpc' = "refused" /\ doneOpen' = FALSE
          /\ UNCHANGED <<mainVars, hand, frameChan, done, poolVars>>
    /\ UNCHANGED <<summed, rows>>

\* Without its file the writer returns before its loop: the sender of done is
\* dropped first, and the receiver with what main sent meanwhile after that.
Refused ==
    /\ wpc = "refused"
    /\ wpc' = "ended"
    /\ rxOpen' = FALSE /\ queue' = <<>>
    /\ Drop(Len(queue))
    /\ UNCHANGED <<hand, summed, rows, result, txOpen, doneChan, mainVars>>

\* Mutant: a closed channel ends the loop before it is drained.
DrainedWhenClosed == ~txOpen

Drained == queue = <<>> /\ ~txOpen

\* The next frame, or the end of the loop.
Recv ==
    /\ wpc = "recv"
    /\ \/ /\ queue # <<>> /\ ~Drained
          /\ hand' = Head(queue) /\ queue' = Tail(queue) /\ wpc' = "write"
       \/ /\ Drained
          /\ wpc' = "flush" /\ UNCHANGED <<hand, queue>>
    /\ UNCHANGED <<mainVars, summed, rows, result, txOpen, rxOpen, doneChan, poolVars>>

\* The frame enters the checksum and the file. Its counts panic when the copy
\* from the GPU failed, and the write may fail.
Write ==
    /\ wpc = "write"
    /\ \/ /\ summed' = Append(summed, hand)
          /\ rows' = IF HasFile THEN Append(rows, hand) ELSE rows
          /\ wpc' = "drop"
          /\ UNCHANGED <<mainVars, hand, result, frameChan, doneChan, poolVars>>
       \/ /\ HasFile
          /\ summed' = Append(summed, hand) /\ UNCHANGED rows
          /\ Leave("error", 1 + Len(queue))
       \/ /\ Gpu
          /\ UNCHANGED <<summed, rows>>
          /\ Leave("panicked", 1 + Len(queue))

\* drop(frame)
DropFrame ==
    /\ wpc = "drop"
    /\ Drop(1)
    /\ hand' = NoFrame /\ wpc' = "confirm"
    /\ UNCHANGED <<mainVars, summed, rows, result, frameChan, doneChan>>

\* done.send(())
Confirm ==
    /\ wpc = "confirm"
    /\ done' = done + 1 /\ wpc' = "recv"
    /\ UNCHANGED <<mainVars, hand, summed, rows, result, frameChan, doneOpen, poolVars>>

Flush ==
    /\ wpc = "flush"
    /\ \/ Leave("ok", Len(queue))
       \/ HasFile /\ Leave("error", Len(queue))
    /\ UNCHANGED <<summed, rows>>

-----------------------------------------------------------------------------
\* The process has ended.
Exited == mpc = "exit" /\ UNCHANGED vars

Main   == (RunWindow \/ Send \/ Wait \/ Close \/ Join) /\ UNCHANGED options
Writer == /\ mpc # "exit" /\ UNCHANGED options
          /\ (Open \/ Refused \/ Recv \/ Write \/ DropFrame \/ Confirm \/ Flush \/ Left)

Next == Main \/ (RunFails /\ UNCHANGED options) \/ Writer \/ Exited

Spec == Init /\ [][Next]_vars

\* Both threads run; no run has to fail.
FairSpec == Spec /\ WF_vars(Main) /\ WF_vars(Writer)

-----------------------------------------------------------------------------
WindowIds == 1 .. Windows

\* The channel never holds more than its depth, nor the pool more than its frames.
TypeOK ==
    /\ options \in [pipeline : BOOLEAN, file : BOOLEAN, gpu : BOOLEAN]
    /\ mpc \in {"run", "send", "wait", "join", "exit"}
    /\ window \in 0 .. Windows
    /\ sent \in 0 .. Windows /\ confirmed \in 0 .. Windows
    /\ outcome \in {"running", "reported", "failed"}
    /\ txOpen \in BOOLEAN /\ rxOpen \in BOOLEAN /\ doneOpen \in BOOLEAN
    /\ queue \in Seq(WindowIds) /\ Len(queue) <= Depth
    /\ done \in 0 .. Windows
    /\ wpc \in {"open", "refused", "recv", "write", "drop", "confirm", "flush", "leaving", "ended"}
    /\ hand \in WindowIds \union {NoFrame}
    /\ summed \in Seq(WindowIds) /\ rows \in Seq(WindowIds)
    /\ result \in {"running", "ok", "error", "panicked"}
    /\ allocated \in 0 .. Frames /\ spare \in 0 .. Frames

(* The channel and the pool keep their bounds, as all state its type, and  *)
(* every buffer of the pool is home, in the frame main is about to send,   *)
(* in the channel or in the writer's hands: no path, of the writer's       *)
(* failures too, loses one, so that take() cannot wait for a lost buffer.  *)
BuffersAccounted ==
    /\ TypeOK
    /\ Gpu =>
          allocated = spare + Len(queue) + (IF mpc = "send" THEN 1 ELSE 0)
                      + (IF hand # NoFrame THEN 1 ELSE 0)

(* The checksum and the file take the windows in time order, each one      *)
(* once, and a run that reports success has all of them in both.           *)
AllWindowsWritten ==
    /\ summed = [i \in 1 .. Len(summed) |-> i]
    /\ rows = [i \in 1 .. Len(rows) |-> i]
    /\ outcome = "reported" =>
          Len(summed) = Windows /\ (HasFile => Len(rows) = Windows)

(* Without --pipeline the next window runs only when the writer has        *)
(* written and dropped every frame sent so far, or has failed: the run     *)
(* and the writer never overlap, and one buffer is all the pool makes.     *)
WaitedForWriter ==
    ~Pipeline /\ mpc = "run" /\ rxOpen /\ doneOpen =>
        /\ queue = <<>> /\ hand = NoFrame /\ Len(summed) = window
        /\ allocated <= 1

(* Every run ends: main waits for ever neither for room in the channel,    *)
(* nor for a buffer, nor for a confirmation, whenever the writer fails.    *)
RunEnds == <>(outcome # "running")
=============================================================================
