------------------------ MODULE SensorPipelineProofs ------------------------
(***************************************************************************)
(* The safety properties of SensorPipeline for any number of windows, any  *)
(* depth of the channel and any number of buffers.                         *)
(*                                                                         *)
(* The invariant counts: the windows that the writer has taken, those in   *)
(* the channel and the one that main is about to send are the windows run, *)
(* in order; and the confirmations received and waiting are the frames     *)
(* that the writer is done with.  Both hold as long as the receiver lives. *)
(* At the end, the room monitor of M1, the repository's other sensor node. *)
(***************************************************************************)
EXTENDS SensorPipeline, SecurityMonitor, SequenceTheorems, TLAPS

Sending == IF mpc = "send" THEN 1 ELSE 0
InHand  == IF hand # NoFrame THEN 1 ELSE 0

\* The windows that the writer has taken from the channel.
Taken == Len(summed) + (IF wpc = "write" THEN 1 ELSE 0)

\* What the places of the two threads say about the ends of the channels.
Places ==
    /\ hand # NoFrame <=> wpc \in {"write", "drop"}
    /\ rxOpen <=> wpc \notin {"leaving", "ended"}
    /\ doneOpen <=> wpc \notin {"refused", "ended"}
    /\ result = "running" <=> wpc \in {"open", "recv", "write", "drop", "confirm", "flush"}
    /\ ~txOpen => mpc \in {"join", "exit"} /\ window = Windows
    /\ wpc = "flush" => ~txOpen /\ queue = <<>>
    /\ ~rxOpen => queue = <<>>

\* Every buffer is home or in one frame; without a GPU there is none.
Buffers ==
    /\ Gpu => allocated = spare + Len(queue) + Sending + InHand
    /\ ~Gpu => allocated = 0 /\ spare = 0

\* The windows are in order from the file over the writer and the channel to main.
InOrder ==
    /\ \A i \in 1 .. Len(summed) : summed[i] = i
    /\ \A i \in 1 .. Len(rows) : rows[i] = i
    /\ HasFile /\ result # "error" => Len(rows) = Len(summed)
    /\ Len(rows) <= Len(summed)
    /\ wpc = "write" => hand = Len(summed) + 1
    /\ rxOpen => /\ \A i \in 1 .. Len(queue) : queue[i] = Taken + i
                 /\ Taken + Len(queue) + Sending = window
    /\ result = "ok" => Len(summed) = Windows
    /\ outcome = "reported" => result = "ok"

\* The frames confirmed are those written and dropped; a main that waits for
\* them goes on with all of them, unless the writer has failed.
Confirmations ==
    /\ sent + Sending <= window
    /\ confirmed + done <= Windows
    /\ rxOpen => /\ sent = Taken + Len(queue)
                 /\ confirmed + done = Len(summed) - (IF wpc \in {"drop", "confirm"} THEN 1 ELSE 0)
    /\ ~Pipeline /\ mpc = "run" /\ rxOpen /\ doneOpen => confirmed >= sent
    /\ ~Pipeline /\ rxOpen /\ doneOpen => allocated <= 1

IInv == TypeOK /\ Places /\ Buffers /\ InOrder /\ Confirmations

-----------------------------------------------------------------------------
\* A run begins with nothing sent.
LEMMA InitInv == Init => IInv
<1> SUFFICES ASSUME Init PROVE IInv
  OBVIOUS
<1> USE RunAssumption
<1>1. TypeOK
  BY DEF Init, TypeOK, WindowIds, NoFrame
<1>2. Places /\ Buffers
  BY DEF Init, Places, Buffers, Sending, InHand, NoFrame
<1>3. InOrder /\ Confirmations
  BY DEF Init, InOrder, Confirmations, Taken, Sending
<1> QED BY <1>1, <1>2, <1>3 DEF IInv

\* The steps of the two threads, as the lemmas below go through them.
MainStep == RunWindow \/ RunFails \/ Send \/ Wait \/ Close \/ Join
WriterStep == Open \/ Refused \/ Recv \/ Write \/ DropFrame \/ Confirm \/ Flush \/ Left

\* Next is a step of one thread, or none, and never changes the options.
LEMMA Steps ==
    ASSUME [Next]_vars
    PROVE  /\ (Gpu' <=> Gpu) /\ (Pipeline' <=> Pipeline) /\ (HasFile' <=> HasFile)
           /\ options' = options
           /\ MainStep \/ WriterStep \/ UNCHANGED vars
<1>1. options' = options /\ (MainStep \/ WriterStep \/ UNCHANGED vars)
  BY DEF Next, Main, Writer, Exited, MainStep, WriterStep, vars, RunFails
<1> QED BY <1>1 DEF Gpu, Pipeline, HasFile

\* The variables that count, as numbers and sequences.
LEMMA Types ==
    ASSUME TypeOK
    PROVE  /\ window \in Nat /\ sent \in Nat /\ confirmed \in Nat /\ done \in Nat
           /\ allocated \in Nat /\ spare \in Nat /\ hand \in Nat
           /\ queue \in Seq(WindowIds) /\ summed \in Seq(WindowIds) /\ rows \in Seq(WindowIds)
           /\ Len(queue) \in Nat /\ Len(summed) \in Nat /\ Len(rows) \in Nat
           /\ 0 \notin WindowIds
           /\ Windows \in Nat /\ Depth \in Nat /\ Frames \in Nat
BY RunAssumption DEF TypeOK, WindowIds, NoFrame

\* A sequence that counts up from n goes on counting with one more number.
LEMMA CountsOn ==
    ASSUME NEW s, NEW n \in Nat, s \in Seq(WindowIds), \A i \in 1 .. Len(s) : s[i] = n + i,
           NEW e \in Nat, e = n + Len(s) + 1
    PROVE  /\ Len(Append(s, e)) = Len(s) + 1
           /\ \A i \in 1 .. Len(Append(s, e)) : Append(s, e)[i] = n + i
<1>1. s \in Seq(Nat)
  BY DEF WindowIds
<1>2. /\ Len(Append(s, e)) = Len(s) + 1
      /\ \A i \in 1 .. Len(s) : Append(s, e)[i] = s[i]
      /\ Append(s, e)[Len(s) + 1] = e
  BY <1>1, AppendProperties
<1>3. Len(s) \in Nat
  BY <1>1
<1> QED BY <1>2, <1>3

\* The parts of a sum stay below its bound.
LEMMA SumInRange ==
    ASSUME NEW m \in Nat, NEW n \in Nat, NEW w \in Nat, m + n <= w
    PROVE  m \in 0 .. w /\ n \in 0 .. w
OBVIOUS

\* The ends of the channels go with the places of the threads.
LEMMA PlacesInv == ASSUME IInv, [Next]_vars PROVE Places'
<1> USE DEF IInv, Places, NoFrame
<1> TypeOK BY DEF IInv
<1>1. CASE RunWindow \/ RunFails \/ Wait \/ Join
  BY <1>1 DEF RunWindow, RunFails, Wait, Join, writerVars, frameChan, doneChan
<1>2. CASE Send
  BY <1>2 DEF Send, writerVars, doneChan
<1>3. CASE Close
  BY <1>3 DEF Close, writerVars, doneChan
<1>4. CASE Open
  BY <1>4 DEF Open, mainVars, frameChan, doneChan
<1>5. CASE Refused \/ Left
  BY <1>5 DEF Refused, Left, mainVars, frameChan, doneChan
<1>6. CASE Recv
  <2>1. CASE queue # <<>> /\ hand' = Head(queue) /\ queue' = Tail(queue) /\ wpc' = "write"
    <3>1. Head(queue) \in WindowIds
      BY <2>1 DEF TypeOK
    <3>2. wpc = "recv" /\ UNCHANGED <<mainVars, result, txOpen, rxOpen, doneChan>>
      BY <1>6 DEF Recv
    <3> QED BY <2>1, <3>1, <3>2 DEF WindowIds, mainVars, doneChan
  <2>2. CASE Drained /\ wpc' = "flush" /\ UNCHANGED <<hand, queue>>
    BY <1>6, <2>2 DEF Recv, Drained, mainVars, doneChan
  <2> QED BY <1>6, <2>1, <2>2 DEF Recv
<1>7. CASE Write
  BY <1>7 DEF Write, Leave, mainVars, frameChan, doneChan
<1>8. CASE DropFrame \/ Confirm
  BY <1>8 DEF DropFrame, Confirm, mainVars, frameChan, doneChan
<1>9. CASE Flush
  BY <1>9 DEF Flush, Leave, mainVars, doneChan
<1>10. CASE UNCHANGED vars
  BY <1>10 DEF vars, mainVars, writerVars, frameChan, doneChan
<1> QED BY Steps, <1>1, <1>2, <1>3, <1>4, <1>5, <1>6, <1>7, <1>8, <1>9, <1>10 DEF MainStep, WriterStep

\* No step makes or loses a buffer but Take, which knows of every one.
LEMMA BuffersInv == ASSUME IInv, [Next]_vars PROVE Buffers'
<1> USE Types, Steps DEF Buffers, Sending, InHand, NoFrame
<1> TypeOK /\ Places /\ Buffers BY DEF IInv
<1>1. CASE RunWindow
  <2>1. CASE Gpu
    BY <1>1, <2>1, SMTT(20) DEF RunWindow, Take, MayAllocate, writerVars, frameChan, poolVars
  <2>2. CASE ~Gpu
    BY <1>1, <2>2 DEF RunWindow, Take, writerVars, frameChan, poolVars
  <2> QED BY <2>1, <2>2
<1>2. CASE RunFails \/ Wait \/ Close \/ Join
  <2>1. UNCHANGED <<queue, hand, allocated, spare>> /\ mpc # "send" /\ mpc' # "send"
    BY <1>2 DEF RunFails, Wait, Close, Join, writerVars, frameChan, poolVars
  <2> QED BY <2>1
<1>3. CASE Send
  <2>1. mpc = "send" /\ mpc' # "send" /\ hand' = hand
    BY <1>3 DEF Send, writerVars
  <2>2. CASE rxOpen
    <3>1. queue' = Append(queue, window) /\ UNCHANGED <<allocated, spare>>
      BY <1>3, <2>2 DEF Send, poolVars
    <3>2. Len(queue') = Len(queue) + 1
      BY <3>1
    <3> QED BY <2>1, <3>1, <3>2, SMTT(20)
  <2>3. CASE ~rxOpen
    BY <1>3, <2>1, <2>3 DEF Send, Drop, poolVars
  <2> QED BY <2>2, <2>3
<1>4. CASE Open \/ Confirm \/ Left
  BY <1>4 DEF Open, Confirm, Left, mainVars, frameChan, poolVars
<1>5. CASE Refused
  BY <1>5 DEF Refused, Drop, mainVars
<1>6. CASE Recv
  <2>1. UNCHANGED <<mpc, allocated, spare>> /\ hand = 0
    BY <1>6 DEF Recv, mainVars, poolVars, Places
  <2>2. CASE queue # <<>> /\ hand' = Head(queue) /\ queue' = Tail(queue)
    <3>1. hand' # 0 /\ Len(queue') = Len(queue) - 1
      BY <2>2
    <3> QED BY <2>1, <3>1
  <2>3. CASE UNCHANGED <<hand, queue>>
    BY <2>1, <2>3
  <2> QED BY <1>6, <2>2, <2>3 DEF Recv
<1>7. CASE Write
  <2>1. hand # 0 /\ mpc' = mpc
    BY <1>7 DEF Write, Leave, mainVars, Places
  <2>2. CASE UNCHANGED <<queue, hand, allocated, spare>>
    BY <2>1, <2>2
  <2>3. CASE hand' = 0 /\ queue' = <<>> /\ Drop(1 + Len(queue))
    BY <2>1, <2>3, SMTT(20) DEF Drop
  <2> QED BY <1>7, <2>2, <2>3 DEF Write, Leave, frameChan, poolVars, NoFrame
<1>8. CASE DropFrame
  <2>1. hand # 0 /\ hand' = 0 /\ Drop(1) /\ UNCHANGED <<queue, mpc>>
    BY <1>8 DEF DropFrame, Places, mainVars, frameChan
  <2>2. Gpu => spare' = spare + 1 /\ allocated' = allocated
    BY <2>1 DEF Drop
  <2>3. ~Gpu => spare' = spare /\ allocated' = allocated
    BY <2>1 DEF Drop
  <2> QED BY <2>1, <2>2, <2>3
<1>9. CASE Flush
  <2>1. hand = 0 /\ hand' = 0 /\ queue' = <<>> /\ Drop(Len(queue)) /\ UNCHANGED mpc
    BY <1>9 DEF Flush, Leave, Places, mainVars
  <2> QED BY <2>1 DEF Drop
<1>10. CASE UNCHANGED vars
  BY <1>10 DEF vars, mainVars, writerVars, frameChan, poolVars
<1> QED BY <1>1, <1>2, <1>3, <1>4, <1>5, <1>6, <1>7, <1>8, <1>9, <1>10 DEF MainStep, WriterStep

\* The writer takes the windows in the order of main, and the file follows it.
LEMMA InOrderInv == ASSUME IInv, [Next]_vars PROVE InOrder'
<1> USE Types, Steps DEF InOrder, Sending, Taken, NoFrame
<1> TypeOK /\ Places /\ InOrder BY DEF IInv
<1>1. CASE RunWindow
  BY <1>1, SMTT(20) DEF RunWindow, writerVars, frameChan
<1>2. CASE RunFails \/ Wait \/ Close
  <2>1. /\ UNCHANGED <<summed, rows, result, wpc, hand, rxOpen, queue, window>>
        /\ mpc # "send" /\ mpc' # "send" /\ outcome' \in {outcome, "failed"}
    BY <1>2 DEF RunFails, Wait, Close, writerVars, frameChan
  <2> QED BY <2>1
<1>3. CASE Join
  <2>1. /\ UNCHANGED <<summed, rows, result, wpc, hand, rxOpen, queue, window>>
        /\ mpc # "send" /\ mpc' # "send" /\ (outcome' = "reported" => result = "ok")
    BY <1>3 DEF Join, writerVars, frameChan
  <2> QED BY <2>1
<1>4. CASE Send
  <2>1. mpc = "send" /\ mpc' # "send" /\ UNCHANGED <<summed, rows, result, wpc, hand, rxOpen, window, outcome>>
    BY <1>4 DEF Send, writerVars
  <2>2. CASE rxOpen
    <3>1. queue' = Append(queue, window)
      BY <1>4, <2>2 DEF Send
    <3>2. window = Taken + Len(queue) + 1
      BY <2>1, <2>2
    <3>3. Len(queue') = Len(queue) + 1 /\ \A i \in 1 .. Len(queue') : queue'[i] = Taken + i
      <4>1. Taken \in Nat /\ \A i \in 1 .. Len(queue) : queue[i] = Taken + i
        BY <2>2
      <4> HIDE DEF Taken
      <4>2. queue \in Seq(WindowIds) /\ window \in Nat /\ window = Taken + Len(queue) + 1
        BY <3>2
      <4>3. /\ Len(Append(queue, window)) = Len(queue) + 1
            /\ \A i \in 1 .. Len(Append(queue, window)) : Append(queue, window)[i] = Taken + i
        BY ONLY <4>1, <4>2, CountsOn
      <4> QED BY ONLY <4>3, <3>1
    <3>4. Taken' = Taken /\ Taken' + Len(queue') + Sending' = window'
      <4>1. Taken' = Taken /\ Sending' = 0 /\ window' = window /\ Taken \in Nat
        BY <2>1
      <4>2. Len(queue') = Len(queue) + 1 /\ Len(queue) \in Nat
        BY <3>3
      <4> HIDE DEF Taken, Sending
      <4> QED BY ONLY <4>1, <4>2, <3>2
    <3>5. \A i \in 1 .. Len(queue') : queue'[i] = Taken' + i
      BY ONLY <3>3, <3>4
    <3> HIDE DEF Taken, Sending
    <3> QED BY <2>1, <2>2, <3>4, <3>5
  <2>3. CASE ~rxOpen
    BY <2>1, <2>3
  <2> QED BY <2>2, <2>3
<1>5. CASE Open
  <2>1. /\ UNCHANGED <<summed, rows, hand, rxOpen, queue, window, mpc, outcome>>
        /\ wpc = "open" /\ wpc' \in {"recv", "refused"} /\ result = "running" /\ result' \in {"running", "error"}
    BY <1>5 DEF Open, mainVars, frameChan, Places
  <2> QED BY <2>1
<1>6. CASE Refused \/ Left
  <2>1. /\ UNCHANGED <<summed, rows, result, window, outcome>>
        /\ ~rxOpen' /\ wpc' # "write"
    BY <1>6 DEF Refused, Left, mainVars, frameChan, Places
  <2> QED BY <2>1
<1>7. CASE Recv
  <2>1. UNCHANGED <<summed, rows, result, rxOpen, window, mpc, outcome>> /\ wpc = "recv" /\ rxOpen
    BY <1>7 DEF Recv, mainVars, Places
  <2>2. CASE queue # <<>> /\ hand' = Head(queue) /\ queue' = Tail(queue) /\ wpc' = "write"
    <3>1. hand' = Len(summed) + 1
      BY <2>1, <2>2
    <3>2. Len(queue') = Len(queue) - 1 /\ \A i \in 1 .. Len(queue') : queue'[i] = Taken + 1 + i
      BY <2>1, <2>2
    <3> QED BY <2>1, <2>2, <3>1, <3>2, SMTT(20)
  <2>3. CASE wpc' = "flush" /\ UNCHANGED <<hand, queue>>
    BY <2>1, <2>3
  <2> QED BY <1>7, <2>2, <2>3 DEF Recv
<1>8. CASE Write
  <2>1. UNCHANGED <<window, mpc,
                    outcome>> /\ wpc = "write" /\ rxOpen /\ result = "running" /\ hand = Len(summed) + 1
    BY <1>8 DEF Write, Leave, mainVars, Places
  <2>2. CASE summed' = Append(summed, hand)
    <3>1. Len(summed') = Len(summed) + 1 /\ \A i \in 1 .. Len(summed') : summed'[i] = 0 + i
      BY <2>1, <2>2, CountsOn
    <3>2. CASE HasFile /\ rows' = Append(rows, hand) /\ wpc' = "drop" /\ UNCHANGED <<result, rxOpen, queue>>
      <4>1. Len(rows) = Len(summed)
        BY <2>1, <3>2
      <4>2. Len(rows') = Len(rows) + 1 /\ \A i \in 1 .. Len(rows') : rows'[i] = 0 + i
        <5>1. rows \in Seq(WindowIds) /\ 0 \in Nat /\ hand \in Nat /\ hand = 0 + Len(rows) + 1
          BY <2>1, <4>1
        <5>2. \A i \in 1 .. Len(rows) : rows[i] = 0 + i
          OBVIOUS
        <5>3. /\ Len(Append(rows, hand)) = Len(rows) + 1
              /\ \A i \in 1 .. Len(Append(rows, hand)) : Append(rows, hand)[i] = 0 + i
          BY ONLY <5>1, <5>2, CountsOn
        <5> QED BY ONLY <5>3, <3>2
      <4> QED BY <2>1, <3>1, <3>2, <4>1, <4>2, SMTT(20)
    <3>3. CASE ~HasFile /\ rows' = rows /\ wpc' = "drop" /\ UNCHANGED <<result, rxOpen, queue>>
      BY <2>1, <3>1, <3>3
    <3>4. CASE rows' = rows /\ result' = "error" /\ wpc' = "leaving" /\ ~rxOpen'
      BY <2>1, <3>1, <3>4
    <3> QED BY <1>8, <2>2, <3>2, <3>3, <3>4, SMTT(20) DEF Write, Leave, frameChan
  <2>3. CASE UNCHANGED <<summed, rows>> /\ result' = "panicked" /\ wpc' = "leaving" /\ ~rxOpen'
    BY <2>1, <2>3
  <2> QED BY <1>8, <2>2, <2>3 DEF Write, Leave
<1>9. CASE DropFrame \/ Confirm
  <2>1. /\ UNCHANGED <<summed, rows, result, rxOpen, queue, window, mpc, outcome>>
        /\ wpc # "write" /\ wpc' # "write"
    BY <1>9 DEF DropFrame, Confirm, mainVars, frameChan
  <2> QED BY <2>1
<1>10. CASE Flush
  <2>1. /\ UNCHANGED <<summed, rows, window, mpc, outcome>> /\ wpc = "flush" /\ wpc' = "leaving"
        /\ rxOpen /\ ~rxOpen' /\ result = "running" /\ result' \in {"ok", "error"}
    BY <1>10 DEF Flush, Leave, mainVars, Places
  <2>2. Len(summed) = Windows
    BY <2>1 DEF Places
  <2> QED BY <2>1, <2>2
<1>11. CASE UNCHANGED vars
  BY <1>11 DEF vars, mainVars, writerVars, frameChan
<1> QED BY <1>1, <1>2, <1>3, <1>4, <1>5, <1>6, <1>7, <1>8, <1>9, <1>10, <1>11 DEF MainStep, WriterStep

\* What a buffer allocated without --pipeline needs: all frames are back.
LEMMA AllHome ==
    ASSUME IInv, ~Pipeline, mpc = "run", rxOpen, doneOpen
    PROVE  /\ Len(queue) = 0 /\ queue = <<>> /\ hand = NoFrame /\ Len(summed) = window
           /\ allocated = spare
<1> USE Types DEF NoFrame
<1> TypeOK /\ Places /\ Buffers /\ InOrder /\ Confirmations BY DEF IInv
<1>1. confirmed >= sent /\ sent = Taken + Len(queue)
  BY DEF Confirmations
<1>2. confirmed + done = Len(summed) - (IF wpc \in {"drop", "confirm"} THEN 1 ELSE 0)
  BY DEF Confirmations
<1>3. Len(queue) = 0 /\ wpc \notin {"write", "drop"}
  BY <1>1, <1>2, SMTT(20) DEF Taken
<1>4. queue = <<>>
  BY <1>3
<1>5. hand = 0
  BY <1>3 DEF Places
<1>6. Len(summed) = window
  BY <1>3 DEF InOrder, Taken, Sending
<1>7. allocated = spare
  <2>1. Gpu => allocated = spare + 0 + 0 + 0
    BY <1>3, <1>5 DEF Buffers, Sending, InHand
  <2>2. ~Gpu => allocated = spare
    BY DEF Buffers
  <2> QED BY <2>1, <2>2
<1> QED BY <1>3, <1>4, <1>5, <1>6, <1>7

\* The writer confirms every frame it is done with, and main counts what it received.
LEMMA ConfirmationsInv == ASSUME IInv, [Next]_vars PROVE Confirmations'
<1> USE Types, Steps DEF Confirmations, Sending, Taken, NoFrame
<1> TypeOK /\ Places /\ Confirmations BY DEF IInv
<1>1. CASE RunWindow
  <2>1. /\ UNCHANGED <<sent, confirmed, done, doneOpen, summed, wpc, rxOpen, queue>>
        /\ mpc = "run" /\ mpc' = "send" /\ window' = window + 1 /\ Take
    BY <1>1 DEF RunWindow, writerVars, frameChan, doneChan
  <2>2. ASSUME ~Pipeline, rxOpen, doneOpen
        PROVE  allocated' <= 1
    <3>1. allocated = spare /\ allocated <= 1
      BY <2>1, <2>2, AllHome
    <3> QED BY <2>1, <3>1, SMTT(20) DEF Take, poolVars
  <2> QED BY <2>1, <2>2
<1>2. CASE RunFails \/ Close \/ Join
  <2>1. /\ UNCHANGED <<sent, confirmed, done, doneOpen, summed, wpc, rxOpen, queue, window, allocated>>
        /\ mpc # "send" /\ mpc' \in {"join", "exit"}
    BY <1>2 DEF RunFails, Close, Join, writerVars, frameChan, doneChan, poolVars
  <2> QED BY <2>1
<1>3. CASE Wait
  <2>1. /\ UNCHANGED <<sent, doneOpen, summed, wpc, rxOpen, queue, window, allocated>>
        /\ mpc = "wait" /\ mpc' # "send"
    BY <1>3 DEF Wait, writerVars, frameChan, poolVars
  <2>2. CASE done > 0 /\ done' = done - 1 /\ confirmed' = confirmed + 1 /\ mpc' = mpc
    <3>1. confirmed' + done' = confirmed + done
      BY <2>2, SMTT(20)
    <3> QED BY <2>1, <2>2, <3>1
  <2>3. CASE WaitOver /\ UNCHANGED <<done, confirmed>>
    BY <2>1, <2>3 DEF WaitOver
  <2> QED BY <1>3, <2>2, <2>3 DEF Wait
<1>4. CASE Send
  <2>1. /\ UNCHANGED <<confirmed, done, doneOpen, summed, wpc, rxOpen, window, allocated>>
        /\ mpc = "send" /\ mpc' # "send" /\ (~Pipeline => mpc' = "wait")
    BY <1>4 DEF Send, Drop, writerVars, doneChan, poolVars
  <2>2. CASE rxOpen
    <3>1. sent' = sent + 1 /\ queue' = Append(queue, window)
      BY <1>4, <2>2 DEF Send
    <3>2. Len(queue') = Len(queue) + 1
      BY <3>1
    <3>3. sent' + Sending' <= window'
      BY <2>1, <3>1
    <3>4. sent' = Taken' + Len(queue')
      <4>1. sent = Taken + Len(queue) /\ Taken \in Nat /\ Len(queue) \in Nat
        BY <2>2, SMTT(20)
      <4>2. Taken' = Taken
        BY <2>1
      <4> HIDE DEF Taken
      <4> QED BY ONLY <3>1, <3>2, <4>1, <4>2
    <3>5. confirmed' + done' = Len(summed') - (IF wpc' \in {"drop", "confirm"} THEN 1 ELSE 0)
      BY <2>1, <2>2
    <3>6. ~Pipeline /\ rxOpen /\ doneOpen => mpc' # "run" /\ allocated' <= 1
      BY <2>1
    <3>7. confirmed' + done' <= Windows
      BY <2>1
    <3> HIDE DEF Taken, Sending
    <3> QED BY <2>1, <3>3, <3>4, <3>5, <3>6, <3>7
  <2>3. CASE ~rxOpen
    <3>1. sent' = sent
      BY <1>4, <2>3 DEF Send
    <3> QED BY <2>1, <2>3, <3>1
  <2> QED BY <2>2, <2>3
<1>5. CASE Open
  <2>1. /\ UNCHANGED <<sent, confirmed, done, summed, rxOpen, queue, window, allocated, mpc>>
        /\ doneOpen' => doneOpen
        /\ wpc = "open" /\ wpc' \in {"recv", "refused"}
    BY <1>5 DEF Open, mainVars, frameChan, doneChan, poolVars, Places
  <2> QED BY <2>1
<1>6. CASE Refused \/ Left
  <2>1. UNCHANGED <<sent, confirmed, done, window, mpc>> /\ ~rxOpen'
    BY <1>6 DEF Refused, Left, mainVars, frameChan, doneChan, Places
  <2> QED BY <2>1
<1>7. CASE Recv
  <2>1. /\ UNCHANGED <<sent, confirmed, done, doneOpen, summed, rxOpen, window, allocated, mpc>>
        /\ wpc = "recv"
    BY <1>7 DEF Recv, mainVars, doneChan, poolVars
  <2>2. CASE queue # <<>> /\ queue' = Tail(queue) /\ wpc' = "write"
    <3>1. Len(queue') = Len(queue) - 1
      BY <2>2
    <3> QED BY <2>1, <2>2, <3>1, SMTT(20)
  <2>3. CASE wpc' = "flush" /\ UNCHANGED queue
    BY <2>1, <2>3
  <2> QED BY <1>7, <2>2, <2>3 DEF Recv
<1>8. CASE Write
  <2>1. UNCHANGED <<sent, confirmed, done, doneOpen, window, mpc, allocated>> /\ wpc = "write"
    BY <1>8 DEF Write, Leave, Drop, mainVars, doneChan, poolVars
  <2>2. CASE summed' = Append(summed, hand) /\ wpc' = "drop" /\ UNCHANGED <<rxOpen, queue>>
    <3>1. Len(summed') = Len(summed) + 1
      BY <2>2
    <3> QED BY <2>1, <2>2, <3>1, SMTT(20)
  <2>3. CASE ~rxOpen'
    BY <2>1, <2>3
  <2> QED BY <1>8, <2>2, <2>3 DEF Write, Leave, frameChan
<1>9. CASE DropFrame
  <2>1. /\ UNCHANGED <<sent, confirmed, done, doneOpen, summed, rxOpen, queue, window, allocated, mpc>>
        /\ wpc = "drop" /\ wpc' = "confirm"
    BY <1>9 DEF DropFrame, Drop, mainVars, frameChan, doneChan, poolVars
  <2> QED BY <2>1
<1>10. CASE Confirm
  <2>1. /\ UNCHANGED <<sent, confirmed, doneOpen, summed, rxOpen, queue, window, allocated, mpc>>
        /\ wpc = "confirm" /\ wpc' = "recv" /\ done' = done + 1 /\ rxOpen
    BY <1>10 DEF Confirm, mainVars, frameChan, poolVars, Places
  <2>2. confirmed + done + 1 = Len(summed) /\ Len(summed) <= window /\ window <= Windows
    BY <2>1 DEF IInv, InOrder, TypeOK
  <2>3. confirmed + done' = Len(summed) /\ confirmed + done' <= Windows
    <3>1. done' = done + 1 /\ Len(summed) <= Windows
      BY <2>1, <2>2
    <3>2. confirmed \in Nat /\ done \in Nat
      OBVIOUS
    <3> QED BY ONLY <2>2, <3>1, <3>2
  <2>4. sent' + Sending' <= window' /\ sent' = Taken' + Len(queue')
    BY <2>1
  <2>5. confirmed' + done' = Len(summed') /\ confirmed' + done' <= Windows
    BY <2>1, <2>3
  <2>6. /\ ~Pipeline' /\ mpc' = "run" /\ rxOpen' /\ doneOpen' => confirmed' >= sent'
        /\ ~Pipeline' /\ rxOpen' /\ doneOpen' => allocated' <= 1
    BY <2>1
  <2>7. wpc' \notin {"drop", "confirm"} /\ Len(summed') - 0 = Len(summed')
    BY <2>1
  <2> HIDE DEF Sending, Taken
  <2> QED BY ONLY <2>4, <2>5, <2>6, <2>7 DEF Confirmations
<1>11. CASE Flush
  <2>1. UNCHANGED <<sent, confirmed, done, window, mpc>> /\ ~rxOpen'
    BY <1>11 DEF Flush, Leave, mainVars, doneChan
  <2> QED BY <2>1
<1>12. CASE UNCHANGED vars
  BY <1>12 DEF vars, mainVars, writerVars, frameChan, doneChan, poolVars
<1> QED BY <1>1, <1>2, <1>3, <1>4, <1>5, <1>6, <1>7, <1>8, <1>9, <1>10, <1>11, <1>12
        DEF MainStep, WriterStep

\* No counter leaves its range: main has run no more windows than there are, the
\* frames sent and confirmed are fewer, and the pool stops at its number of buffers.
LEMMA TypeInv ==
    ASSUME IInv, [Next]_vars, Buffers', Confirmations'
    PROVE  TypeOK'
<1> USE DEF NoFrame
<1> TypeOK /\ Confirmations BY DEF IInv
<1> options' \in [pipeline : BOOLEAN, file : BOOLEAN, gpu : BOOLEAN]
  BY Steps DEF TypeOK
<1>1. CASE RunWindow
  <2>1. window' \in 0 .. Windows /\ mpc' = "send"
    BY <1>1, Types DEF RunWindow, TypeOK
  <2>2. allocated' \in 0 .. Frames /\ spare' \in 0 .. Frames
    BY <1>1, Types, SMTT(20) DEF RunWindow, Take, MayAllocate, TypeOK, poolVars
  <2>3. UNCHANGED <<sent, confirmed, outcome, writerVars, frameChan, doneChan>>
    BY <1>1 DEF RunWindow
  <2> QED BY <2>1, <2>2, <2>3 DEF TypeOK, writerVars, frameChan, doneChan
<1>2. CASE RunFails \/ Close \/ Join
  BY <1>2, ZenonT(30) DEF RunFails, Close, Join, TypeOK, writerVars, frameChan, doneChan, poolVars
<1>3. CASE Wait
  <2>1. confirmed' \in 0 .. Windows /\ done' \in 0 .. Windows /\ mpc' \in {"wait", "run"}
    <3>1. mpc' \in {"wait", "run"} /\ confirmed' \in Nat /\ done' \in Nat
      BY <1>3, Types, SMTT(20) DEF Wait
    <3>2. confirmed' + done' <= Windows /\ Windows \in Nat
      BY Types DEF Confirmations
    <3>3. confirmed' \in 0 .. Windows /\ done' \in 0 .. Windows
      BY ONLY <3>1, <3>2, SumInRange
    <3> QED BY ONLY <3>1, <3>3
  <2>2. UNCHANGED <<window, sent, outcome, writerVars, frameChan, doneOpen, poolVars>>
    BY <1>3 DEF Wait
  <2> QED BY <2>1, <2>2 DEF TypeOK, writerVars, frameChan, poolVars
<1>4. CASE Send
  <2>1. sent + 1 <= window /\ window \in WindowIds
    BY <1>4 DEF Send, Confirmations, Sending, TypeOK, WindowIds
  <2>2. queue' \in Seq(WindowIds) /\ Len(queue') <= Depth
    <3>1. CASE rxOpen /\ Room /\ queue' = Append(queue, window)
      <4>1. Append(queue, window) \in Seq(WindowIds) /\ Len(Append(queue, window)) = Len(queue) + 1
        BY <2>1, Types
      <4> QED BY <3>1, <4>1, Types DEF Room
    <3>2. CASE UNCHANGED queue
      BY <3>2 DEF TypeOK
    <3> QED BY <1>4, <3>1, <3>2 DEF Send
  <2>3. sent' \in 0 .. Windows /\ mpc' \in {"run", "wait"}
    BY <1>4, <2>1, Types DEF Send, TypeOK
  <2>4. spare' \in Nat /\ allocated' = allocated
    BY <1>4, Types DEF Send, Drop, poolVars
  <2>5. spare' <= allocated'
    BY <1>4, <2>4, <2>2 DEF Buffers, Sending, InHand
  <2>6. UNCHANGED <<window, confirmed, outcome, txOpen, rxOpen, writerVars, doneChan>>
    BY <1>4 DEF Send
  <2> QED BY <2>2, <2>3, <2>4, <2>5, <2>6, Types, SMTT(20) DEF TypeOK, writerVars, doneChan
<1>5. CASE Open
  BY <1>5, ZenonT(30) DEF Open, TypeOK, mainVars, frameChan, doneChan, poolVars
<1>6. CASE Left
  BY <1>6 DEF Left, TypeOK, mainVars, frameChan, poolVars
<1>7. CASE Recv
  <2>1. hand' \in WindowIds \union {0} /\ queue' \in Seq(WindowIds) /\ Len(queue') <= Depth
    <3>1. CASE queue # <<>> /\ hand' = Head(queue) /\ queue' = Tail(queue)
      <4>1. Head(queue) \in WindowIds /\ Tail(queue) \in Seq(WindowIds) /\ Len(Tail(queue)) = Len(queue) - 1
        BY <3>1, Types
      <4> QED BY <3>1, <4>1, Types DEF TypeOK
    <3>2. CASE UNCHANGED <<hand, queue>>
      BY <3>2 DEF TypeOK
    <3> QED BY <1>7, <3>1, <3>2 DEF Recv
  <2>2. /\ UNCHANGED <<mainVars, summed, rows, result, txOpen, rxOpen, doneChan, poolVars>>
        /\ wpc' \in {"write", "flush"}
    BY <1>7 DEF Recv
  <2> QED BY <2>1, <2>2 DEF TypeOK, mainVars, doneChan, poolVars
<1>8. CASE Write
  <2>1. hand \in WindowIds
    BY <1>8 DEF IInv, Places, Write, TypeOK
  <2>2. summed' \in Seq(WindowIds) /\ rows' \in Seq(WindowIds)
    <3>1. Append(summed, hand) \in Seq(WindowIds) /\ Append(rows, hand) \in Seq(WindowIds)
      BY <2>1, Types
    <3> QED BY <1>8, <3>1, Types DEF Write
  <2>3. spare' \in Nat /\ allocated' = allocated
    BY <1>8, Types, SMTT(20) DEF Write, Leave, Drop, poolVars
  <2>4. queue' \in Seq(WindowIds) /\ Len(queue') <= Depth
    <3>1. queue' = queue \/ queue' = <<>>
      BY <1>8 DEF Write, Leave, frameChan
    <3>2. Len(queue) <= Depth
      BY DEF TypeOK
    <3>3. CASE queue' = queue
      BY <3>2, <3>3, Types
    <3>4. CASE queue' = <<>>
      BY <3>4, Types
    <3> QED BY <3>1, <3>3, <3>4
  <2>5. spare' <= allocated'
    BY <2>3, <2>4 DEF Buffers, Sending, InHand
  <2>6. /\ UNCHANGED <<mainVars, txOpen, doneChan>> /\ rxOpen' \in BOOLEAN
        /\ wpc' \in {"drop", "leaving"} /\ hand' \in {hand, 0}
        /\ result' \in {result, "error", "panicked"}
    BY <1>8 DEF Write, Leave, frameChan, TypeOK
  <2> QED BY <2>1, <2>2, <2>3, <2>4, <2>5, <2>6, Types, SMTT(20) DEF TypeOK, mainVars, doneChan
<1>9. CASE DropFrame \/ Confirm
  <2>1. spare' \in Nat /\ allocated' = allocated
    BY <1>9, Types DEF DropFrame, Confirm, Drop, poolVars
  <2>2. UNCHANGED <<mainVars, summed, rows, result, frameChan, doneOpen>>
    BY <1>9 DEF DropFrame, Confirm, doneChan
  <2>3. spare' <= allocated'
    BY <2>1, <2>2 DEF Buffers, Sending, InHand, frameChan
  <2>4. done' \in 0 .. Windows
    BY <1>9, <2>2, Types, SMTT(20) DEF DropFrame, Confirm, Confirmations, doneChan, mainVars, TypeOK
  <2>5. wpc' \in {"confirm", "recv"} /\ hand' \in {hand, 0}
    BY <1>9 DEF DropFrame, Confirm
  <2> QED BY <2>1, <2>2, <2>3, <2>4, <2>5, Types, SMTT(20) DEF TypeOK, mainVars, frameChan
<1>10. CASE Refused \/ Flush
  <2>1. spare' \in Nat /\ allocated' = allocated
    BY <1>10, Types DEF Refused, Flush, Leave, Drop
  <2>2. queue' = <<>> /\ rxOpen' = FALSE /\ hand' \in {hand, 0} /\ wpc' \in {"leaving", "ended"}
    BY <1>10 DEF Refused, Flush, Leave
  <2>3. spare' <= allocated'
    BY <2>1, <2>2 DEF Buffers, Sending, InHand
  <2>4. UNCHANGED <<summed, rows, txOpen, doneChan, mainVars>> /\ result' \in {result, "ok", "error"}
    BY <1>10 DEF Refused, Flush, Leave
  <2>5. spare' \in 0 .. Frames /\ allocated' \in 0 .. Frames
    BY <2>1, <2>3, Types DEF TypeOK
  <2>6. queue' \in Seq(WindowIds) /\ Len(queue') <= Depth
    BY <2>2, Types
  <2> QED BY <2>2, <2>4, <2>5, <2>6, ZenonT(30) DEF TypeOK, mainVars, doneChan
<1>11. CASE UNCHANGED vars
  BY <1>11 DEF vars, TypeOK, mainVars, writerVars, frameChan, doneChan, poolVars
<1> QED BY <1>1, <1>2, <1>3, <1>4, <1>5, <1>6, <1>7, <1>8, <1>9, <1>10, <1>11, Types, Steps
        DEF MainStep, WriterStep

\* IInv is inductive.
LEMMA Invariant == Spec => []IInv
<1>1. Init => IInv
  BY InitInv
<1>2. IInv /\ [Next]_vars => IInv'
  BY PlacesInv, BuffersInv, InOrderInv, ConfirmationsInv, TypeInv DEF IInv
<1> QED BY <1>1, <1>2, PTL DEF Spec

-----------------------------------------------------------------------------
\* The channel and the pool stay within their bounds and no buffer of a frame is
\* lost, whatever their sizes and wherever the writer fails (FramePool, writer_loop).
THEOREM NoBufferLost == Spec => []BuffersAccounted
<1>1. IInv => BuffersAccounted
  BY Types DEF IInv, Buffers, Sending, InHand, BuffersAccounted
<1> QED BY <1>1, Invariant, PTL

\* A run that reports success has every window in the checksum and in the file, in
\* time order and once, for any number of windows (SensorWriter::finish, writer_loop).
THEOREM ReportedRunsAreWhole == Spec => []AllWindowsWritten
<1>1. ASSUME IInv PROVE AllWindowsWritten
  <2> USE <1>1, Types DEF IInv, InOrder
  <2>1. summed = [i \in 1 .. Len(summed) |-> i]
    OBVIOUS
  <2>2. rows = [i \in 1 .. Len(rows) |-> i]
    OBVIOUS
  <2> QED BY <2>1, <2>2 DEF AllWindowsWritten
<1> QED BY <1>1, Invariant, PTL

\* Without --pipeline no window runs beside the writer, and the pool makes one
\* buffer whatever FRAMES is (SensorWriter::send_and_wait, FramePool::take).
THEOREM NoOverlapWithoutPipeline == Spec => []WaitedForWriter
<1>1. IInv => WaitedForWriter
  BY AllHome DEF IInv, Confirmations, WaitedForWriter
<1> QED BY <1>1, Invariant, PTL
-----------------------------------------------------------------------------
(* The room monitor: NoChangeLost of SecurityMonitor for any clock, any    *)
(* debounce window and any status period.                                  *)
(*                                                                         *)
(* It says nothing of the time between the interrupt and the end of        *)
(* processPinChange.  The invariant follows the port on its way: in the    *)
(* snapshot while its flag is set, then in the copy, then in lastPortB;    *)
(* and before the interrupt is enabled nothing of this has begun.          *)

\* A set flag holds the port's present state, and is set when loop copies.
OnItsWay ==
    /\ ~quiet /\ ~pcif => IF pciFlag THEN portBSnapshot = pins ELSE Known = pins
    /\ pc = "copy" => pciFlag

\* Until Enable the interrupt is masked and the program in setup.
SetupFirst ==
    /\ ~enabled => ~pcif /\ ~pciFlag /\ quiet
    /\ pc \in {"baseline", "enable"} <=> ~enabled

MonitorInv == MonitorTypeOK /\ OnItsWay /\ SetupFirst

\* The globals of the program establish the invariant.
LEMMA InitMonitor == MonitorInit => MonitorInv
<1> SUFFICES ASSUME MonitorInit PROVE MonitorInv
  OBVIOUS
<1>1. MonitorTypeOK
  <2>1. 0 \in 0 .. ClockMod - 1 /\ 0 \in 0 .. StatusPeriod - 1
    BY ClockAssumption
  <2>2. [p \in Pins |-> TRUE] \in Levels /\ [p \in Pins |-> 0] \in [Pins -> 0 .. ClockMod - 1]
    BY <2>1 DEF Levels
  <2> QED BY <2>1, <2>2, Zenon DEF MonitorInit, MonitorTypeOK
<1>2. OnItsWay /\ SetupFirst
  BY DEF MonitorInit, OnItsWay, SetupFirst
<1> QED BY <1>1, <1>2 DEF MonitorInv

\* The clock, the times of the last changes and the counter stay in range.
LEMMA MonitorTypes == ASSUME MonitorInv, [MonitorNext]_monitorVars PROVE MonitorTypeOK'
<1> USE ClockAssumption DEF MonitorInv, MonitorTypeOK, Levels
<1>1. CASE Baseline
  BY <1>1, SMTT(20) DEF Baseline, handoffVars, outputVars, hardwareVars
<1>2. CASE Enable
  BY <1>2, SMTT(20) DEF Enable, handoffVars, systemVars, outputVars
<1>3. CASE Test
  <2>1. /\ UNCHANGED <<hardwareVars, now, handoffVars, snapshot, systemVars, outputVars,
                       quiet>>
        /\ pc' \in {"copy", "motion", "evaluate", "timer", "tick", "output"}
    BY <1>3, SMTT(20) DEF Test, TestFlag
  <2> QED BY <2>1, SMTT(20) DEF handoffVars, systemVars, outputVars, hardwareVars
<1>4. CASE Copy \/ Evaluate \/ Output
  BY <1>4 DEF Copy, Evaluate, Output, handoffVars, systemVars, outputVars,
              hardwareVars
<1>5. CASE Process
  <2>1. lastChange' \in [Pins -> 0 .. ClockMod - 1]
    BY <1>5 DEF Process
  <2>2. armed' \in BOOLEAN /\ doorOpen' \in BOOLEAN /\ alarmActive' \in BOOLEAN
    BY <1>5 DEF Process, AlarmAfterArming, Triggers
  <2>3. lastPortB' \in [Pins -> BOOLEAN] /\ snapshot' \in [Pins -> BOOLEAN]
    BY <1>5 DEF Process
  <2> QED BY <1>5, <2>1, <2>2, <2>3 DEF Process, handoffVars, outputVars, hardwareVars
<1>6. CASE Tick
  <2>1. NextStatus \in 0 .. StatusPeriod - 1
    BY DEF NextStatus
  <2> QED BY <1>6, <2>1, Zenon DEF Tick, systemVars, hardwareVars
<1>7. CASE PinChangeIsr
  BY <1>7 DEF PinChangeIsr, Latch, systemVars, outputVars
<1>8. CASE MotionIsr \/ TimerIsr
  <2>1. motionFlag' \in BOOLEAN /\ timerTick' \in BOOLEAN
    BY <1>8, Zenon DEF MotionIsr, TimerIsr
  <2>2. UNCHANGED <<hardwareVars, now, pciFlag, portBSnapshot, pc, snapshot, systemVars,
                    outputVars, quiet>>
    BY <1>8, Zenon DEF MotionIsr, TimerIsr
  <2> QED BY <2>1, <2>2 DEF hardwareVars, systemVars, outputVars
<1>9. CASE \E p \in Pins : PinChange(p)
  BY <1>9 DEF PinChange, handoffVars, systemVars, outputVars
<1>10. CASE TimePasses
  BY <1>10 DEF TimePasses, handoffVars, systemVars, outputVars, hardwareVars
<1>11. CASE UNCHANGED monitorVars
  BY <1>11 DEF monitorVars, handoffVars, systemVars, outputVars, hardwareVars
<1> QED BY <1>1, <1>2, <1>3, <1>4, <1>5, <1>6, <1>7, <1>8, <1>9, <1>10, <1>11 DEF MonitorNext, Setup,
                                                                                  Loop

\* Each step hands the port on whole, or makes a request pending.
LEMMA MonitorPort == ASSUME MonitorInv, [MonitorNext]_monitorVars PROVE OnItsWay' /\ SetupFirst'
<1> USE DEF MonitorInv, OnItsWay, SetupFirst, Known
<1>1. CASE Setup
  BY <1>1 DEF Setup, Baseline, Enable, handoffVars, hardwareVars
<1>2. CASE Test
  BY <1>2 DEF Test, TestFlag, handoffVars, systemVars, hardwareVars
<1>3. CASE Copy
  BY <1>3 DEF Copy, systemVars, hardwareVars
<1>4. CASE Process
  BY <1>4 DEF Process, handoffVars, hardwareVars
<1>5. CASE Evaluate \/ Tick \/ Output
  <2>1. UNCHANGED <<pins, pcif, enabled, pciFlag, portBSnapshot, snapshot, lastPortB, quiet>>
    BY <1>5 DEF Evaluate, Tick, Output, handoffVars, systemVars, hardwareVars
  <2>2. pc \in {"evaluate", "tick", "output"} /\ pc' \in {"timer", "output", "pci"}
    BY <1>5 DEF Evaluate, Tick, Output
  <2> QED BY <2>1, <2>2
<1>6. CASE PinChangeIsr
  BY <1>6 DEF PinChangeIsr, Latch, systemVars
<1>7. CASE MotionIsr \/ TimerIsr \/ TimePasses
  BY <1>7 DEF MotionIsr, TimerIsr, TimePasses, handoffVars, systemVars,
              hardwareVars
<1>8. CASE \E p \in Pins : PinChange(p)
  BY <1>8 DEF PinChange, handoffVars, systemVars, MonitorTypeOK
<1>9. CASE UNCHANGED monitorVars
  BY <1>9 DEF monitorVars, handoffVars, systemVars, hardwareVars
<1> QED BY <1>1, <1>2, <1>3, <1>4, <1>5, <1>6, <1>7, <1>8, <1>9 DEF MonitorNext, Loop

\* No pin change is lost between the handler and loop, whatever the clock, the
\* debounce window and the moment of each interrupt (PCINT0_vect, processPinChange).
THEOREM PinChangesArrive == MonitorSpec => []NoChangeLost
<1>1. MonitorInit => MonitorInv
  BY InitMonitor
<1>2. MonitorInv /\ [MonitorNext]_monitorVars => MonitorInv'
  BY MonitorTypes, MonitorPort DEF MonitorInv
<1>3. MonitorInv => NoChangeLost
  BY DEF MonitorInv, OnItsWay, NoChangeLost
<1> QED BY <1>1, <1>2, <1>3, PTL DEF MonitorSpec
=============================================================================
