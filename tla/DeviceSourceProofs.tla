------------------------ MODULE DeviceSourceProofs ------------------------
(***************************************************************************)
(* The safety of V4L2DeviceSource for every queue size, every sink buffer, *)
(* every way of splitting packets and either threading mode.  Each part of *)
(* the inductive invariant joins an invariant TLC checks to facts about    *)
(* control states it rests on, so that the parts are proved one by one:    *)
(* every one of them needs ControlInv and only the refinement needs two.   *)
(***************************************************************************)
EXTENDS DeviceSource, SequenceTheorems, TLAPS

\* What the control states say about the packet and the request in progress.
Control ==
    /\ cpc = "queue" => todo # <<>>
    /\ cpc \in {"select", "write", "stopped"} => todo = <<>>
    /\ lpc \in {"enter", "copy", "unlock", "after"} => awaiting
    /\ Internal => lpc # "handler"
    /\ ~Internal /\ cpc \in {"queue", "trigger", "write"} => lpc = "handler"

\* SizesReported, from the moment the answer is known.
Sizes ==
    /\ awaiting /\ ~Answered => fNumTruncatedBytes = 0
    /\ Answered => /\ fFrameSize <= MaxSize
                   /\ fFrameSize + fNumTruncatedBytes = frame.size
    /\ lpc = "after" => fFrameSize > 0

\* The frames in the queue are younger than the last one delivered.
LastIsBehind == last + Len(queue) <= posted

ControlInv == TypeOK /\ Control

QueueInv == QueueIsWindow /\ LastIsBehind

MemoryInv == FramesHaveMemory /\ OwnerIsLast /\ BuffersAccounted

-----------------------------------------------------------------------------
(* What queueFrame and deliverFrame do to the queue. *)

\* There is always something to keep or to drop, never more than there is.
LEMMA DropCount ==
    ASSUME TypeOK
    PROVE  NumDropped \in 0 .. Len(queue)
  BY QueueSizeAssumption, LenProperties DEF TypeOK, NumDropped

\* After a push the queue is what was kept, in order, and the new frame.
LEMMA PushFacts ==
    ASSUME TypeOK, todo # <<>>
    PROVE  /\ Pushed \in Seq(Frame)
           /\ Len(Pushed) = Len(queue) - NumDropped + 1
           /\ \A i \in 1 .. Len(queue) - NumDropped :
                 Pushed[i] = queue[i + NumDropped]
           /\ Pushed[Len(queue) - NumDropped + 1] = NewFrame
  <1>1. NumDropped \in 0 .. Len(queue) /\ Len(queue) \in Nat
    BY DropCount, LenProperties DEF TypeOK
  <1>2. /\ Kept \in Seq(Frame)
        /\ Len(Kept) = Len(queue) - NumDropped
        /\ \A i \in 1 .. Len(queue) - NumDropped :
              Kept[i] = queue[i + NumDropped]
    BY <1>1, SubSeqProperties DEF TypeOK, Kept
  <1>3. NewFrame \in Frame
    BY HeadTailProperties DEF TypeOK, NewFrame, Frame, LastOwns
  <1>4. QED
    BY <1>1, <1>2, <1>3, AppendProperties DEF Pushed

\* The rest of a queue that is not empty.
LEMMA TailFacts ==
    ASSUME NEW S, NEW s \in Seq(S), s # <<>>
    PROVE  /\ Head(s) = s[1] /\ Head(s) \in S /\ Len(s) \in Nat \ {0}
           /\ Tail(s) \in Seq(S) /\ Len(Tail(s)) = Len(s) - 1
           /\ \A i \in 1 .. Len(s) - 1 : Tail(s)[i] = s[i + 1]
  BY HeadTailProperties, LenProperties, EmptySeq

LEMMA TailOfOne ==
    ASSUME NEW S, NEW s \in Seq(S), s # <<>>
    PROVE  Tail(s) = <<>> <=> Len(s) = 1
  <1>1. Tail(s) \in Seq(S) /\ Len(Tail(s)) = Len(s) - 1 /\ Len(s) \in Nat
    BY TailFacts
  <1>2. Tail(s) = <<>> <=> Len(Tail(s)) = 0
    BY <1>1, EmptySeq
  <1>3. QED
    BY <1>1, <1>2

LEMMA QueuedFrame ==
    ASSUME queue \in Seq(Frame), NEW i \in 1 .. Len(queue)
    PROVE  /\ queue[i] \in Frame
           /\ queue[i].seq \in Nat /\ queue[i].buf \in Nat
           /\ queue[i].owner \in BOOLEAN
  <1>1. queue[i] \in Frame
    BY ElementOfSeq
  <1>2. QED
    BY <1>1 DEF Frame

-----------------------------------------------------------------------------
(* Types and control. *)

LEMMA InitControl == Init => ControlInv
  <1> SUFFICES ASSUME Init PROVE ControlInv
    OBVIOUS
  <1>1. queue \in Seq(Frame) /\ todo \in Seq(Nat)
    BY DEF Init
  <1>2. frame \in Frame
    BY DEF Init, NoFrame, Frame
  <1>3. QED
    BY <1>1, <1>2 DEF Init, ControlInv, TypeOK, Control

\* A read that gives no packet, whatever becomes of the thread.
LEMMA ReadFailsKeepsTypes ==
    ASSUME TypeOK, ReadFails
    PROVE  /\ queue' \in Seq(Frame) /\ todo' = todo /\ posted' \in Nat
           /\ heap' \subseteq 1 .. reads' /\ leaked' \subseteq 1 .. reads'
           /\ reads' \in Nat /\ lpc' = lpc
           /\ awaiting' \in BOOLEAN /\ client' \in BOOLEAN
           /\ closed' \in BOOLEAN
           /\ frame' \in Frame /\ fFrameSize' \in Nat
           /\ fNumTruncatedBytes' \in Nat /\ last' \in Nat
  <1>1. awaiting' \in BOOLEAN /\ closed' \in BOOLEAN
    BY SwitchAssumption, Zenon DEF TypeOK, ReadFails, HandleClosure
  <1>2. heap' \subseteq 1 .. reads' /\ leaked' \subseteq 1 .. reads'
    BY DEF TypeOK, ReadFails
  <1>3. QED
    BY <1>1, <1>2 DEF TypeOK, ReadFails

LEMMA ReadsKeepControl ==
    ASSUME ControlInv, ReadPacket \/ ReadNoData \/ ReadError \/ SelectFails
    PROVE  ControlInv'
  <1> USE DEF ControlInv, Control
  <1>1. CASE ReadPacket
    BY <1>1, PacketsAssumption, SwitchAssumption
       DEF TypeOK, captureVars, loopVars, ReadPacket, MayRead, CaptureGoesTo,
           AfterPacket
  <1>2. CASE ReadNoData
    <2>1. TypeOK'
      BY <1>2, ReadFailsKeepsTypes DEF TypeOK, ReadNoData
    <2>2. Control'
      BY <1>2 DEF ReadNoData, ReadFails, MayRead, TypeOK, HandleClosure
    <2>3. QED
      BY <2>1, <2>2
  <1>3. CASE ReadError
    <2>1. TypeOK'
      BY <1>3, ReadFailsKeepsTypes DEF TypeOK, ReadError
    <2>2. Control'
      BY <1>3 DEF ReadError, ReadFails, MayRead, TypeOK, HandleClosure
    <2>3. QED
      BY <2>1, <2>2
  <1>4. CASE SelectFails
    BY <1>4 DEF SelectFails, TypeOK, loopVars
  <1>5. QED
    BY <1>1, <1>2, <1>3, <1>4

LEMMA PostKeepsControl ==
    ASSUME ControlInv, Post
    PROVE  ControlInv'
  <1> USE DEF ControlInv, Control
  <1>1. CASE QueueFrame
    <2>1. todo # <<>> /\ Tail(todo) \in Seq(Nat)
      BY <1>1, TailFacts DEF QueueFrame, TypeOK
    <2>2. Pushed \in Seq(Frame)
      BY <2>1, PushFacts
    <2>3. heap' \subseteq heap
      BY <1>1 DEF QueueFrame
    <2>4. TypeOK'
      <3>1. queue' \in Seq(Frame) /\ todo' \in Seq(Nat) /\ posted' \in Nat
        BY <1>1, <2>1, <2>2 DEF QueueFrame, TypeOK
      <3>2. heap' \subseteq 1 .. reads' /\ leaked' \subseteq 1 .. reads'
        BY <1>1, <2>3 DEF QueueFrame, TypeOK
      <3>3. QED
        BY <1>1, <3>1, <3>2 DEF QueueFrame, TypeOK, loopVars
    <2>5. Control'
      BY <1>1 DEF QueueFrame, loopVars
    <2>6. QED
      BY <2>4, <2>5
  <1>2. CASE TriggerEvent
    BY <1>2, SwitchAssumption
       DEF TriggerEvent, TypeOK, loopVars, CaptureGoesTo, AfterPacket
  <1>3. CASE WriteOutput
    BY <1>3, SwitchAssumption DEF WriteOutput, TypeOK, loopVars, CaptureGoesTo
  <1>4. QED
    BY <1>1, <1>2, <1>3 DEF Post

LEMMA LoopKeepsControl ==
    ASSUME ControlInv, Loop
    PROVE  ControlInv'
  <1> USE DEF ControlInv, Control
  <1>1. CASE GetNextFrame
    BY <1>1 DEF GetNextFrame, TypeOK, captureVars
  <1>2. CASE StopGettingFrames
    BY <1>2 DEF StopGettingFrames, TypeOK, captureVars
  <1>3. CASE HandleEvent
    BY <1>3 DEF HandleEvent, TypeOK, captureVars, loopVars
  <1>4. CASE DeliverNothing
    BY <1>4 DEF DeliverNothing, TypeOK, captureVars
  <1>5. CASE DeliverPop
    <2>1. frame' \in Frame /\ queue' \in Seq(Frame)
      BY <1>5, TailFacts DEF DeliverPop, TypeOK
    <2>2. frame'.size \in Nat /\ frame'.seq \in Nat
      BY <2>1 DEF Frame
    <2>3. fFrameSize' \in Nat /\ fNumTruncatedBytes' \in Nat /\ last' \in Nat
      BY <1>5, <2>2, MaxSizeAssumption DEF DeliverPop, TypeOK, Fits, Cut
    <2>4. QED
      BY <1>5, <2>1, <2>3 DEF DeliverPop, TypeOK, captureVars
  <1>6. CASE DeliverCopy
    <2>1. pending' \in BOOLEAN
      BY <1>6, Zenon DEF DeliverCopy, TypeOK, MoreFrames
    <2>2. QED
      BY <1>6, <2>1 DEF DeliverCopy, TypeOK, captureVars, loopVars
  <1>7. CASE DeliverUnlock
    BY <1>7 DEF DeliverUnlock, TypeOK, captureVars, loopVars
  <1>8. CASE AfterGetting
    BY <1>8 DEF AfterGetting, TypeOK, captureVars
  <1>9. QED
    BY <1>1, <1>2, <1>3, <1>4, <1>5, <1>6, <1>7, <1>8 DEF Loop, Deliver

LEMMA StepKeepsControl ==
    ASSUME ControlInv, [Next]_vars
    PROVE  ControlInv'
  <1>1. CASE UNCHANGED vars
    BY <1>1 DEF vars, captureVars, loopVars, ControlInv, TypeOK, Control
  <1>2. QED
    BY <1>1, ReadsKeepControl, PostKeepsControl, LoopKeepsControl
       DEF Next, Capture

\* V4L2DeviceSource keeps its variables in their types, and a handler of the
\* live555 mode never overlaps a delivery.
THEOREM TypeCorrect == SafeSpec => []TypeOK
  <1>1. Init => ControlInv
    BY InitControl
  <1>2. ControlInv /\ [Next]_vars => ControlInv'
    BY StepKeepsControl
  <1>3. ControlInv => TypeOK
    BY DEF ControlInv
  <1>4. QED
    BY <1>1, <1>2, <1>3, PTL DEF SafeSpec

-----------------------------------------------------------------------------
(* No lost wakeup. *)

LEMMA CaptureKeepsWakeup ==
    ASSUME ControlInv, NoLostWakeup, Capture
    PROVE  NoLostWakeup'
  <1> USE DEF NoLostWakeup, ControlInv, Control, loopVars
  <1>1. CASE ReadPacket
    BY <1>1, SwitchAssumption DEF ReadPacket, MayRead, CaptureGoesTo
  <1>2. CASE ReadNoData
    BY <1>2 DEF ReadNoData
  <1>3. CASE ReadError
    BY <1>3, SwitchAssumption DEF ReadError, ReadFails, HandleClosure, MayRead
  <1>4. CASE SelectFails
    BY <1>4 DEF SelectFails
  <1>5. CASE QueueFrame
    BY <1>5 DEF QueueFrame
  <1>6. CASE TriggerEvent
    BY <1>6 DEF TriggerEvent
  <1>7. CASE WriteOutput
    BY <1>7, SwitchAssumption DEF WriteOutput, CaptureGoesTo
  <1>8. QED
    BY <1>1, <1>2, <1>3, <1>4, <1>5, <1>6, <1>7 DEF Capture, Post

LEMMA LoopKeepsWakeup ==
    ASSUME ControlInv, NoLostWakeup, Loop
    PROVE  NoLostWakeup'
  <1> USE DEF NoLostWakeup, ControlInv, Control, captureVars, loopVars
  <1>1. CASE GetNextFrame
    BY <1>1 DEF GetNextFrame
  <1>2. CASE StopGettingFrames
    BY <1>2 DEF StopGettingFrames
  <1>3. CASE HandleEvent
    BY <1>3 DEF HandleEvent
  <1>4. CASE DeliverNothing
    BY <1>4 DEF DeliverNothing
  <1>5. CASE DeliverPop
    BY <1>5 DEF DeliverPop
  <1>6. CASE DeliverCopy
    BY <1>6 DEF DeliverCopy, MoreFrames
  <1>7. CASE DeliverUnlock
    BY <1>7 DEF DeliverUnlock
  <1>8. CASE AfterGetting
    BY <1>8 DEF AfterGetting
  <1>9. QED
    BY <1>1, <1>2, <1>3, <1>4, <1>5, <1>6, <1>7, <1>8 DEF Loop, Deliver

\* A sink that waits for a frame while one is queued is never forgotten,
\* however posts, deliveries and requests interleave.
THEOREM WakeupNotLost == SafeSpec => []NoLostWakeup
  <1>1. Init => ControlInv /\ NoLostWakeup
    BY InitControl DEF Init, NoLostWakeup
  <1>2. ControlInv /\ NoLostWakeup /\ [Next]_vars
          => (ControlInv /\ NoLostWakeup)'
    <2> SUFFICES ASSUME ControlInv, NoLostWakeup, [Next]_vars
                 PROVE  ControlInv' /\ NoLostWakeup'
      OBVIOUS
    <2>1. ControlInv'
      BY StepKeepsControl
    <2>2. CASE UNCHANGED vars
      BY <2>1, <2>2 DEF vars, captureVars, loopVars, NoLostWakeup
    <2>3. QED
      BY <2>1, <2>2, CaptureKeepsWakeup, LoopKeepsWakeup DEF Next
  <1>3. QED
    BY <1>1, <1>2, PTL DEF SafeSpec

-----------------------------------------------------------------------------
(* The window of the last frames posted, and the order of delivery. *)

\* queueFrame drops exactly one frame of a full queue and none of another.
LEMMA PushKeepsWindow ==
    ASSUME ControlInv, QueueInv, QueueFrame
    PROVE  /\ QueueInv'
           /\ Len(queue') = IF Len(queue) = QueueSize
                              THEN Len(queue) ELSE Len(queue) + 1
  <1> USE DEF ControlInv, QueueInv
  <1>1. todo # <<>> /\ TypeOK /\ Len(queue) \in Nat /\ posted \in Nat
    BY LenProperties DEF QueueFrame, Control, TypeOK
  <1>2. NumDropped = IF Len(queue) = QueueSize THEN 1 ELSE 0
    BY <1>1, QueueSizeAssumption DEF NumDropped, QueueIsWindow
  <1>3. /\ Len(queue') = Len(queue) - NumDropped + 1
        /\ \A i \in 1 .. Len(queue) - NumDropped :
              queue'[i] = queue[i + NumDropped]
        /\ queue'[Len(queue) - NumDropped + 1].seq = posted + 1
    BY <1>1, PushFacts DEF QueueFrame, NewFrame
  <1>4. QueueIsWindow'
    <2>1. Len(queue') <= QueueSize
      BY <1>1, <1>2, <1>3, QueueSizeAssumption DEF QueueIsWindow
    <2>2. ASSUME NEW i \in 1 .. Len(queue')
          PROVE  queue'[i].seq + Len(queue') = posted' + i
      <3>1. CASE i = Len(queue')
        BY <1>1, <1>2, <1>3, <3>1 DEF QueueFrame
      <3>2. CASE i # Len(queue')
        <4>1. i \in 1 .. Len(queue) - NumDropped
              /\ i + NumDropped \in 1 .. Len(queue)
          <5>1. NumDropped \in {0, 1} /\ (NumDropped = 1 => Len(queue) > 0)
            BY <1>1, <1>2, QueueSizeAssumption
          <5>2. i \in Nat /\ i >= 1 /\ i <= Len(queue) - NumDropped
            BY <1>1, <1>3, <3>2, <5>1
          <5>. QED
            BY <1>1, <5>1, <5>2
        <4>2. queue'[i] = queue[i + NumDropped]
          BY <1>3, <4>1
        <4>3. queue[i + NumDropped].seq + Len(queue) = posted + (i + NumDropped)
          BY <4>1 DEF QueueIsWindow
        <4>4. Len(queue') = Len(queue) - NumDropped + 1 /\ posted' = posted + 1
          BY <1>3 DEF QueueFrame
        <4>5. queue[i + NumDropped].seq \in Nat
          BY <4>1, <1>1, QueuedFrame DEF TypeOK
        <4> DEFINE seq == queue[i + NumDropped].seq
                   len == Len(queue)
        <4>6. /\ seq \in Nat /\ len \in Nat /\ posted \in Nat
              /\ i \in Nat /\ NumDropped \in {0, 1}
          BY <4>1, <4>5, <1>1, <1>2
        <4>7. seq + len = posted + (i + NumDropped)
          BY <4>3
        <4>8. queue'[i].seq = seq /\ Len(queue') = len - NumDropped + 1
          BY <4>2, <4>4
        <4> HIDE DEF seq, len
        <4>9. seq + (len - NumDropped + 1) = (posted + 1) + i
          BY <4>6, <4>7
        <4>10. QED
          BY <4>4, <4>8, <4>9
      <3>3. QED
        BY <3>1, <3>2
    <2>3. QED
      BY <2>1, <2>2 DEF QueueIsWindow
  <1>5. LastIsBehind'
    BY <1>1, <1>2, <1>3 DEF LastIsBehind, QueueFrame, loopVars, TypeOK
  <1>6. QED
    BY <1>1, <1>2, <1>3, <1>4, <1>5

\* deliverFrame takes the oldest frame of the window, which is younger than
\* everything delivered before.
LEMMA PopKeepsWindow ==
    ASSUME ControlInv, QueueInv, DeliverPop
    PROVE  /\ QueueInv'
           /\ Len(queue') = Len(queue) - 1 /\ Len(queue) \in Nat \ {0}
           /\ Head(queue).seq = posted + 1 - Len(queue)
           /\ Head(queue).seq > last
  <1> USE DEF ControlInv, QueueInv
  <1>1. /\ queue # <<>> /\ queue \in Seq(Frame) /\ queue' = Tail(queue)
        /\ posted' = posted /\ posted \in Nat /\ last \in Nat
    BY DEF DeliverPop, TypeOK, captureVars
  <1>2. /\ Head(queue) = queue[1] /\ Len(queue) \in Nat \ {0}
        /\ Len(queue') = Len(queue) - 1
        /\ \A i \in 1 .. Len(queue) - 1 : queue'[i] = queue[i + 1]
        /\ Head(queue) \in Frame
    BY <1>1, TailFacts
  <1>3. Head(queue).seq \in Nat /\ Head(queue).seq = posted + 1 - Len(queue)
    BY <1>1, <1>2 DEF QueueIsWindow, Frame
  <1>4. Head(queue).seq > last
    BY <1>1, <1>2, <1>3 DEF LastIsBehind
  <1>5. QueueIsWindow'
    <2>1. Len(queue') <= QueueSize
      BY <1>2, QueueSizeAssumption DEF QueueIsWindow
    <2>2. ASSUME NEW i \in 1 .. Len(queue')
          PROVE  queue'[i].seq + Len(queue') = posted' + i
      <3>1. i + 1 \in 1 .. Len(queue) /\ queue'[i] = queue[i + 1]
        BY <1>2
      <3>2. queue[i + 1].seq + Len(queue) = posted + (i + 1)
        BY <3>1 DEF QueueIsWindow
      <3>3. queue[i + 1].seq \in Nat
        BY <1>1, <3>1, QueuedFrame
      <3> DEFINE seq == queue[i + 1].seq
                 len == Len(queue)
      <3>4. /\ queue'[i].seq = seq /\ Len(queue') = len - 1
            /\ seq \in Nat /\ len \in Nat /\ posted \in Nat /\ i \in Nat
        BY <1>1, <1>2, <3>1, <3>3
      <3>5. seq + len = posted + (i + 1)
        BY <3>2
      <3> HIDE DEF seq, len
      <3>6. seq + (len - 1) = posted + i
        BY <3>4, <3>5
      <3>7. QED
        BY <1>1, <3>4, <3>6
    <2>3. QED
      BY <2>1, <2>2 DEF QueueIsWindow
  <1>6. last' \in {last, Head(queue).seq}
    BY DEF DeliverPop
  <1>7. LastIsBehind'
    BY <1>1, <1>2, <1>3, <1>4, <1>6 DEF LastIsBehind
  <1>8. QED
    BY <1>2, <1>3, <1>4, <1>5, <1>7

\* Nothing else touches the queue.
LEMMA OnlyPushAndPop ==
    ASSUME [Next]_vars, ~QueueFrame, ~DeliverPop
    PROVE  queue' = queue /\ posted' = posted /\ last' = last
  BY DEF Next, Capture, Post, Loop, Deliver, vars, captureVars, loopVars,
         ReadPacket, ReadNoData, ReadError, ReadFails, SelectFails,
         TriggerEvent, WriteOutput, GetNextFrame, StopGettingFrames,
         HandleEvent, DeliverNothing, DeliverCopy, DeliverUnlock, AfterGetting

LEMMA StepKeepsWindow ==
    ASSUME ControlInv, QueueInv, [Next]_vars
    PROVE  QueueInv' /\ (last' # last => last' > last)
  <1>1. CASE QueueFrame
    BY <1>1, PushKeepsWindow DEF QueueFrame, loopVars
  <1>2. CASE DeliverPop
    BY <1>2, PopKeepsWindow DEF DeliverPop
  <1>3. CASE ~QueueFrame /\ ~DeliverPop
    BY <1>3, OnlyPushAndPop DEF QueueInv, QueueIsWindow, LastIsBehind
  <1>4. QED
    BY <1>1, <1>2, <1>3

LEMMA WindowInvariant == SafeSpec => [](ControlInv /\ QueueInv)
  <1>1. Init => ControlInv /\ QueueInv
    BY InitControl, QueueSizeAssumption
       DEF Init, QueueInv, QueueIsWindow, LastIsBehind
  <1>2. ControlInv /\ QueueInv /\ [Next]_vars => (ControlInv /\ QueueInv)'
    BY StepKeepsControl, StepKeepsWindow
  <1>3. QED
    BY <1>1, <1>2, PTL DEF SafeSpec

\* The capture queue is bounded by m_queueSize and always holds the last
\* frames posted, in order.
THEOREM QueueBounded == SafeSpec => []QueueIsWindow
  BY WindowInvariant, PTL DEF QueueInv

\* Frames reach the sink in the order of capture, none of them twice.
THEOREM OrderKept == SafeSpec => DeliveredInOrder
  <1>1. ControlInv /\ QueueInv /\ [Next]_vars
          => [last' # last => last' > last]_vars
    BY StepKeepsWindow
  <1>2. QED
    BY <1>1, WindowInvariant, PTL DEF SafeSpec, DeliveredInOrder

-----------------------------------------------------------------------------
(* Buffers: what is queued is allocated, and is freed once. *)

\* queueFrame frees the buffers of the frames it drops and of no other frame.
LEMMA PushKeepsMemory ==
    ASSUME ControlInv, MemoryInv, QueueFrame
    PROVE  MemoryInv'
  <1> DEFINE n == NumDropped
             m == Len(queue) - NumDropped
  <1>1. /\ TypeOK /\ cpc = "queue" /\ todo # <<>> /\ todo \in Seq(Nat)
        /\ queue \in Seq(Frame) /\ Len(queue) \in Nat /\ reads \in Nat
        /\ lpc # "copy" /\ lpc' = lpc /\ reads' = reads /\ leaked' = leaked
        /\ todo' = Tail(todo) /\ queue' = Pushed /\ heap' = heap \ FreedByDrop
    BY LenProperties
       DEF QueueFrame, ControlInv, Control, TypeOK, LoopHoldsMutex
  <1>2. n \in 0 .. Len(queue) /\ m \in Nat
    BY <1>1, DropCount
  <1>3. /\ Len(queue') = m + 1 /\ queue'[m + 1] = NewFrame
        /\ \A i \in 1 .. m : queue'[i] = queue[i + n]
    BY <1>1, PushFacts
  <1>4. \A b : b \in FreedByDrop <=>
               \E i \in 1 .. n : queue[i].owner /\ b = queue[i].buf
    BY DEF FreedByDrop, OwnedBy
  <1>5. reads \in heap'
    <2>1. reads \in heap
      BY <1>1 DEF MemoryInv, FramesHaveMemory
    <2>2. \A i \in 1 .. n : ~(queue[i].owner /\ reads = queue[i].buf)
      BY <1>1, <1>2 DEF MemoryInv, OwnerIsLast
    <2>3. QED
      BY <1>1, <1>4, <2>1, <2>2
  <1>6. ASSUME NEW i \in 1 .. m
        PROVE  /\ i + n \in 1 .. Len(queue) /\ queue'[i] = queue[i + n]
               /\ queue'[i].buf \in heap'
    <2>1. i + n \in 1 .. Len(queue) /\ queue'[i] = queue[i + n]
      BY <1>2, <1>3
    <2>2. queue[i + n].buf \in heap
      BY <2>1 DEF MemoryInv, FramesHaveMemory
    <2>3. ASSUME NEW j \in 1 .. n
          PROVE  ~(queue[j].owner /\ queue[i + n].buf = queue[j].buf)
      <3>1. j \in 1 .. Len(queue) /\ j < i + n
        BY <1>1, <1>2
      <3>2. QED
        BY <2>1, <3>1 DEF MemoryInv, OwnerIsLast
    <2>4. QED
      BY <1>1, <1>4, <2>1, <2>2, <2>3
  <1>7. FramesHaveMemory'
    BY <1>1, <1>2, <1>3, <1>5, <1>6 DEF FramesHaveMemory, NewFrame
  <1>8. NewFrame.owner /\ todo' # <<>> => FALSE
    BY <1>1, TailOfOne DEF NewFrame, LastOwns
  <1>9. OwnerIsLast'
    <2>1. ASSUME NEW i \in 1 .. m + 1, NEW j \in 1 .. m + 1,
                 i < j, queue'[i].owner
          PROVE  queue'[i].buf # queue'[j].buf
      <3>1. i \in 1 .. m
        BY <1>2, <2>1
      <3>2. CASE j \in 1 .. m
        <4>1. i + n < j + n
          BY <1>2, <2>1
        <4>2. /\ i + n \in 1 .. Len(queue) /\ queue'[i] = queue[i + n]
              /\ j + n \in 1 .. Len(queue) /\ queue'[j] = queue[j + n]
          BY <1>6, <3>1, <3>2
        <4>3. queue[i + n].buf # queue[j + n].buf
          BY <2>1, <4>1, <4>2 DEF MemoryInv, OwnerIsLast
        <4>4. QED
          BY <4>2, <4>3
      <3>3. CASE j = m + 1
        BY <1>1, <1>3, <1>6, <2>1, <3>1, <3>3
           DEF MemoryInv, OwnerIsLast, NewFrame
      <3>4. QED
        BY <1>2, <3>2, <3>3
    <2>2. ASSUME NEW i \in 1 .. m + 1, queue'[i].owner, todo' # <<>>
          PROVE  queue'[i].buf # reads'
      <3>1. i \in 1 .. m
        BY <1>2, <1>3, <1>8, <2>2
      <3>2. QED
        BY <1>1, <1>6, <2>2, <3>1 DEF MemoryInv, OwnerIsLast
    <2>3. QED
      BY <1>1, <1>3, <2>1, <2>2 DEF OwnerIsLast
  <1>10. BuffersAccounted'
    <2>1. SUFFICES ASSUME NEW b \in heap', b \notin leaked'
                   PROVE  \/ \E i \in 1 .. m + 1 : b \in OwnedBy(queue'[i])
                          \/ todo' # <<>> /\ b = reads'
      BY <1>3 DEF BuffersAccounted, OwnedBuffers
    <2>2. CASE todo # <<>> /\ b = reads
      <3>1. CASE Len(todo) = 1
        <4>1. NewFrame.owner /\ NewFrame.buf = reads
          BY <3>1 DEF NewFrame, LastOwns
        <4>2. b \in OwnedBy(queue'[m + 1])
          BY <1>3, <2>2, <4>1 DEF OwnedBy
        <4>3. QED
          BY <1>2, <4>2
      <3>2. CASE Len(todo) # 1
        BY <1>1, <2>2, <3>2, TailOfOne
      <3>3. QED
        BY <3>1, <3>2
    <2>3. CASE \E i \in 1 .. Len(queue) : b \in OwnedBy(queue[i])
      <3>1. PICK i \in 1 .. Len(queue) : b \in OwnedBy(queue[i])
        BY <2>3
      <3>2. ~(i \in 1 .. n)
        BY <1>1, <1>4, <2>1, <3>1 DEF OwnedBy
      <3>3. i - n \in 1 .. m /\ (i - n) + n = i
        BY <1>1, <1>2, <3>1, <3>2
      <3>4. queue'[i - n] = queue[i]
        BY <1>3, <3>3
      <3>5. QED
        BY <1>2, <3>1, <3>3, <3>4
    <2>4. QED
      BY <1>1, <2>1, <2>2, <2>3 DEF MemoryInv, BuffersAccounted, OwnedBuffers
  <1>11. QED
    BY <1>7, <1>9, <1>10 DEF MemoryInv

LEMMA PopKeepsMemory ==
    ASSUME ControlInv, MemoryInv, DeliverPop
    PROVE  MemoryInv'
  <1>1. /\ queue # <<>> /\ queue \in Seq(Frame) /\ queue' = Tail(queue)
        /\ frame' = Head(queue) /\ lpc' = "copy" /\ lpc = "enter"
        /\ heap' = heap /\ leaked' = leaked /\ todo' = todo /\ reads' = reads
    BY DEF DeliverPop, ControlInv, TypeOK, captureVars
  <1>2. /\ frame' = queue[1] /\ Len(queue) \in Nat \ {0}
        /\ Len(queue') = Len(queue) - 1
        /\ \A i \in 1 .. Len(queue) - 1 : queue'[i] = queue[i + 1]
    BY <1>1, TailFacts
  <1>3. FramesHaveMemory'
    BY <1>1, <1>2 DEF MemoryInv, FramesHaveMemory
  <1>4. OwnerIsLast'
    BY <1>1, <1>2 DEF MemoryInv, OwnerIsLast
  <1>5. BuffersAccounted'
    <2>1. OwnedBuffers \subseteq OwnedBuffers'
      <3>1. SUFFICES ASSUME NEW i \in 1 .. Len(queue)
                     PROVE  OwnedBy(queue[i]) \subseteq OwnedBuffers'
        BY <1>1 DEF OwnedBuffers
      <3>2. CASE i = 1
        <4>1. OwnedBy(queue[i]) = OwnedBy(frame')
          BY <1>2, <3>2
        <4>2. OwnedBy(frame') \subseteq OwnedBuffers'
          BY <1>1 DEF OwnedBuffers
        <4>3. QED
          BY <4>1, <4>2
      <3>3. CASE i # 1
        <4>1. i - 1 \in 1 .. Len(queue') /\ queue'[i - 1] = queue[i]
          BY <1>2, <3>1, <3>3
        <4>2. QED
          BY <4>1 DEF OwnedBuffers
      <3>4. QED
        BY <3>2, <3>3
    <2>2. QED
      BY <1>1, <2>1 DEF MemoryInv, BuffersAccounted
  <1>6. QED
    BY <1>3, <1>4, <1>5 DEF MemoryInv

\* A read starts a new packet: its buffer has a number no frame refers to.
LEMMA ReadKeepsMemory ==
    ASSUME ControlInv, MemoryInv, ReadPacket \/ ReadNoData \/ ReadError
    PROVE  MemoryInv'
  <1>1. /\ queue' = queue /\ frame' = frame /\ reads' = reads + 1
        /\ reads \in Nat /\ heap \subseteq 1 .. reads
        /\ heap' = heap \cup {reads + 1}
        /\ leaked \subseteq leaked' /\ todo = <<>>
        /\ todo' = <<>> => reads + 1 \in leaked'
    BY DEF ReadPacket, ReadNoData, ReadError, ReadFails, MayRead, loopVars,
           ControlInv, Control, TypeOK
  <1>2. lpc' = "copy" <=> lpc = "copy"
    BY SwitchAssumption DEF ReadPacket, ReadNoData, ReadError, ReadFails,
           MayRead, CaptureGoesTo
  <1>3. reads + 1 \notin heap
    BY <1>1
  <1>4. FramesHaveMemory'
    BY <1>1, <1>2 DEF MemoryInv, FramesHaveMemory
  <1>5. OwnerIsLast'
    BY <1>1, <1>2, <1>3 DEF MemoryInv, OwnerIsLast, FramesHaveMemory
  <1>6. BuffersAccounted'
    <2>1. OwnedBuffers' = OwnedBuffers
      BY <1>1, <1>2 DEF OwnedBuffers
    <2>2. QED
      BY <1>1, <2>1 DEF MemoryInv, BuffersAccounted
  <1>7. QED
    BY <1>4, <1>5, <1>6 DEF MemoryInv

LEMMA CopyKeepsMemory ==
    ASSUME ControlInv, MemoryInv, DeliverCopy
    PROVE  MemoryInv'
  <1>1. /\ queue' = queue /\ heap' = heap \ OwnedBy(frame) /\ lpc = "copy"
        /\ lpc' = "unlock" /\ reads' = reads /\ todo' = todo
        /\ leaked' = leaked
    BY DEF DeliverCopy, captureVars
  <1>2. FramesHaveMemory'
    BY <1>1 DEF MemoryInv, FramesHaveMemory, OwnerIsLast, OwnedBy
  <1>3. OwnerIsLast'
    BY <1>1 DEF MemoryInv, OwnerIsLast
  <1>4. BuffersAccounted'
    <2>1. OwnedBuffers \subseteq OwnedBuffers' \cup OwnedBy(frame)
      BY <1>1 DEF OwnedBuffers
    <2>2. QED
      BY <1>1, <2>1 DEF MemoryInv, BuffersAccounted
  <1>5. QED
    BY <1>2, <1>3, <1>4 DEF MemoryInv

\* The other actions change neither the buffers nor what refers to them.
LEMMA RestKeepsMemory ==
    ASSUME ControlInv, MemoryInv, [Next]_vars, ~ReadPacket, ~ReadNoData,
           ~ReadError, ~QueueFrame, ~DeliverPop, ~DeliverCopy
    PROVE  MemoryInv'
  <1>1. /\ queue' = queue /\ heap' = heap /\ leaked' = leaked
        /\ frame' = frame /\ todo' = todo /\ reads' = reads
    BY DEF Next, Capture, Post, Loop, Deliver, vars, captureVars, loopVars,
           SelectFails, TriggerEvent, WriteOutput, GetNextFrame,
           StopGettingFrames, HandleEvent, DeliverNothing, DeliverUnlock,
           AfterGetting
  <1>2. lpc' = "copy" <=> lpc = "copy"
    BY SwitchAssumption
       DEF Next, Capture, Post, Loop, Deliver, vars, captureVars, loopVars,
           SelectFails, TriggerEvent, WriteOutput, GetNextFrame,
           StopGettingFrames, HandleEvent, DeliverNothing, DeliverUnlock,
           AfterGetting, CaptureGoesTo, AfterPacket, ControlInv, Control
  <1>3. OwnedBuffers' = OwnedBuffers
    BY <1>1, <1>2 DEF OwnedBuffers
  <1>4. FramesHaveMemory' /\ OwnerIsLast' /\ BuffersAccounted'
    BY <1>1, <1>2, <1>3
       DEF MemoryInv, FramesHaveMemory, OwnerIsLast, BuffersAccounted
  <1>5. QED
    BY <1>4 DEF MemoryInv

LEMMA MemoryInvariant == SafeSpec => [](ControlInv /\ MemoryInv)
  <1>1. Init => ControlInv /\ MemoryInv
    BY InitControl DEF Init, MemoryInv, FramesHaveMemory, OwnerIsLast,
           BuffersAccounted
  <1>2. ControlInv /\ MemoryInv /\ [Next]_vars => (ControlInv /\ MemoryInv)'
    BY StepKeepsControl, PushKeepsMemory, PopKeepsMemory, ReadKeepsMemory,
       CopyKeepsMemory, RestKeepsMemory
  <1>3. QED
    BY <1>1, <1>2, PTL DEF SafeSpec

\* A frame in the queue, or in the hands of deliverFrame, never outlives the
\* packet buffer it points into.
THEOREM NoDanglingFrame == SafeSpec => []FramesHaveMemory
  BY MemoryInvariant, PTL DEF MemoryInv

\* A packet buffer is never freed twice, however drops and deliveries mix.
THEOREM NoDoubleFree == SafeSpec => []OwnerIsLast
  BY MemoryInvariant, PTL DEF MemoryInv

\* A buffer whose packet gave a frame is always on its way to be freed.
THEOREM NoOtherLeak == SafeSpec => []BuffersAccounted
  BY MemoryInvariant, PTL DEF MemoryInv

-----------------------------------------------------------------------------
(* What the sink is told. *)

LEMMA StepKeepsSizes ==
    ASSUME ControlInv, Sizes, [Next]_vars
    PROVE  Sizes'
  <1> USE DEF ControlInv, Sizes, Answered, Control
  <1>1. CASE DeliverPop
    <2>1. Head(queue).size \in Nat /\ frame' = Head(queue)
      <3>1. Head(queue) \in Frame
        BY <1>1, TailFacts DEF DeliverPop, TypeOK
      <3>2. QED
        BY <1>1, <3>1 DEF DeliverPop, Frame
    <2>2. fNumTruncatedBytes = 0 /\ lpc' = "copy"
      BY <1>1 DEF DeliverPop
    <2>3. CASE Fits(Head(queue))
      BY <1>1, <2>1, <2>2, <2>3, MaxSizeAssumption DEF DeliverPop, Fits
    <2>4. CASE ~Fits(Head(queue))
      BY <1>1, <2>1, <2>2, <2>4, MaxSizeAssumption DEF DeliverPop, Fits, Cut
    <2>5. QED
      BY <2>3, <2>4
  <1>2. CASE Loop /\ ~DeliverPop
    BY <1>2 DEF Loop, Deliver, GetNextFrame, StopGettingFrames, HandleEvent,
       DeliverNothing, DeliverCopy, DeliverUnlock, AfterGetting, captureVars,
       loopVars, TypeOK
  <1>3. CASE Post \/ ReadPacket \/ SelectFails
    BY <1>3, SwitchAssumption DEF Post, ReadPacket, SelectFails, QueueFrame,
       TriggerEvent, WriteOutput, CaptureGoesTo, AfterPacket, MayRead,
       loopVars, TypeOK
  <1>4. CASE ReadNoData \/ ReadError
    BY <1>4, SwitchAssumption DEF ReadNoData, ReadError, ReadFails,
       HandleClosure, MayRead, TypeOK
  <1>5. CASE UNCHANGED vars
    BY <1>5 DEF vars, loopVars
  <1>6. QED
    BY <1>1, <1>2, <1>3, <1>4, <1>5 DEF Next, Capture

LEMMA SizesInvariant == SafeSpec => [](ControlInv /\ Sizes)
  <1>1. Init => ControlInv /\ Sizes
    BY InitControl DEF Init, Sizes, Answered
  <1>2. ControlInv /\ Sizes /\ [Next]_vars => (ControlInv /\ Sizes)'
    BY StepKeepsControl, StepKeepsSizes
  <1>3. QED
    BY <1>1, <1>2, PTL DEF SafeSpec

\* The sizes the sink is called back with are those of the frame, whatever
\* was truncated for the requests before.
THEOREM SizesTrue == SafeSpec => []SizesReported
  <1>1. Sizes => SizesReported
    BY DEF Sizes, SizesReported, Answered
  <1>2. QED
    BY <1>1, SizesInvariant, PTL

-----------------------------------------------------------------------------
(* The source implements the channel that loses its oldest frames. *)

\* An action that leaves the queue alone changes at most who waits.
LEMMA OtherStepsMap ==
    ASSUME ControlInv, Sizes, [Next]_vars, ~QueueFrame, ~DeliverPop
    PROVE  [Channel!Next]_(Channel!vars)
  <1> USE DEF ControlInv, Control, TypeOK, Answered, Channel!vars
  <1>1. queue' = queue /\ posted' = posted /\ last' = last
    BY OnlyPushAndPop
  <1>2. CASE GetNextFrame
    BY <1>1, <1>2 DEF GetNextFrame, Channel!Next, Channel!Ask
  <1>3. CASE StopGettingFrames
    BY <1>1, <1>3 DEF StopGettingFrames, Channel!Next, Channel!Withdraw
  <1>4. CASE ReadNoData \/ ReadError
    BY <1>1, <1>4, SwitchAssumption
       DEF ReadNoData, ReadError, ReadFails, HandleClosure, MayRead,
           Channel!Next, Channel!Withdraw
  <1>5. CASE HandleEvent \/ DeliverNothing \/ DeliverCopy \/ DeliverUnlock
             \/ AfterGetting
    BY <1>1, <1>5 DEF HandleEvent, DeliverNothing, DeliverCopy, DeliverUnlock,
       AfterGetting, loopVars, Sizes
  <1>6. CASE ReadPacket \/ SelectFails \/ TriggerEvent \/ WriteOutput
    BY <1>1, <1>6, SwitchAssumption
       DEF ReadPacket, SelectFails, TriggerEvent, WriteOutput, MayRead,
           CaptureGoesTo, AfterPacket, loopVars
  <1>7. CASE UNCHANGED vars
    BY <1>1, <1>7 DEF vars, loopVars
  <1>8. QED
    BY <1>2, <1>3, <1>4, <1>5, <1>6, <1>7 DEF Next, Capture, Post, Loop, Deliver

LEMMA StepMaps ==
    ASSUME ControlInv, QueueInv, Sizes, [Next]_vars
    PROVE  [Channel!Next]_(Channel!vars)
  <1>1. CASE QueueFrame
    <2>1. /\ Len(queue') = IF Len(queue) = QueueSize
                             THEN Len(queue) ELSE Len(queue) + 1
          /\ posted' = posted + 1 /\ last' = last /\ lpc' = lpc
          /\ awaiting' = awaiting /\ fFrameSize' = fFrameSize
      BY <1>1, PushKeepsWindow DEF QueueFrame, loopVars
    <2>2. posted \in Nat /\ Len(queue) \in Nat
      BY LenProperties DEF ControlInv, TypeOK
    <2>3. Channel!Post
      BY <2>1, <2>2, QueueSizeAssumption DEF Channel!Post, Answered
    <2>4. QED
      BY <2>3 DEF Channel!Next
  <1>2. CASE DeliverPop
    <2>1. /\ Len(queue') = Len(queue) - 1 /\ Len(queue) \in Nat \ {0}
          /\ Head(queue).seq = posted + 1 - Len(queue)
      BY <1>2, PopKeepsWindow
    <2>2. /\ posted' = posted /\ posted \in Nat /\ awaiting' = awaiting
          /\ lpc = "enter" /\ lpc' = "copy" /\ awaiting
          /\ Head(queue) \in Frame
      BY <1>2, TailFacts
         DEF DeliverPop, captureVars, ControlInv, Control, TypeOK
    <2>3. Head(queue).size \in Nat
      BY <2>2 DEF Frame
    <2>4. CASE Head(queue).size > 0
      <3>1. fFrameSize' > 0 /\ last' = Head(queue).seq
        BY <1>2, <2>3, <2>4, MaxSizeAssumption DEF DeliverPop, Fits
      <3>2. Channel!Take
        BY <2>1, <2>2, <3>1 DEF Channel!Take, Answered
      <3>3. QED
        BY <3>2 DEF Channel!Next
    <2>5. CASE ~(Head(queue).size > 0)
      <3>1. fFrameSize' = 0 /\ last' = last
        BY <1>2, <2>3, <2>5, MaxSizeAssumption DEF DeliverPop, Fits
      <3>2. Channel!Skip
        BY <2>1, <2>2, <3>1 DEF Channel!Skip, Answered
      <3>3. QED
        BY <3>2 DEF Channel!Next
    <2>6. QED
      BY <2>4, <2>5
  <1>3. CASE ~QueueFrame /\ ~DeliverPop
    BY <1>3, OtherStepsMap
  <1>4. QED
    BY <1>1, <1>2, <1>3

\* Seen through the number of frames posted and the length of the queue,
\* V4L2DeviceSource is the bounded channel that loses its oldest frames.
THEOREM ChannelSafety == SafeSpec => Channel!SafeSpec
  <1>1. Init => Channel!Init
    BY DEF Init, Channel!Init, Answered
  <1>2. ControlInv /\ QueueInv /\ Sizes /\ [Next]_vars
          => [Channel!Next]_(Channel!vars)
    BY StepMaps
  <1>3. QED
    BY <1>1, <1>2, WindowInvariant, SizesInvariant, PTL
       DEF SafeSpec, Channel!SafeSpec

\* The queue is a window of the frames captured, and the sizes the sink is told
\* are true, on both threads and for every queue size.
THEOREM WindowHolds == SafeSpec => []WindowTrue
  <1>1. TypeOK /\ QueueIsWindow /\ SizesReported => WindowTrue
    BY DEF WindowTrue
  <1>2. QED
    BY <1>1, TypeCorrect, QueueBounded, SizesTrue, PTL

\* The packet buffers are safe: none is used after it is freed, freed twice, or
\* forgotten but where the code drops it.
THEOREM MemoryHolds == SafeSpec => []MemorySafe
  <1>1. FramesHaveMemory /\ OwnerIsLast /\ BuffersAccounted => MemorySafe
    BY DEF MemorySafe
  <1>2. QED
    BY <1>1, NoDanglingFrame, NoDoubleFree, NoOtherLeak, PTL

-----------------------------------------------------------------------------
(* The copy to the output, with the capture code on the event loop. *)

\* From the push of a frame to the copy of its packet the buffer is the one
\* behind the youngest frame of the queue.
OutputInv ==
    /\ cpc = "trigger" => /\ queue # <<>>
                          /\ queue[Len(queue)].buf = reads
    /\ OutputCopiesFrame

\* A handler holds the loop: no delivery comes between push and copy.
LEMMA HandlerKeepsOutput ==
    ASSUME ~Internal, ControlInv, MemoryInv, OutputInv, [Next]_vars
    PROVE  OutputInv'
  <1> USE DEF OutputInv, OutputCopiesFrame
  <1>1. CASE ReadPacket
    BY <1>1 DEF ReadPacket, CaptureGoesTo, AfterPacket
  <1>2. CASE ReadNoData \/ ReadError \/ SelectFails
    BY <1>2 DEF ReadNoData, ReadError, SelectFails, ReadFails, MayRead
  <1>3. CASE QueueFrame
    <2>1. todo # <<>> /\ TypeOK
      BY <1>3 DEF QueueFrame, ControlInv, Control
    <2>2. NumDropped \in 0 .. Len(queue) /\ Len(queue) \in Nat
      BY <2>1, DropCount, LenProperties DEF TypeOK
    <2>3. /\ Len(Pushed) = Len(queue) - NumDropped + 1
          /\ Pushed \in Seq(Frame) /\ Pushed[Len(Pushed)].buf = reads
      BY <2>1, PushFacts DEF NewFrame
    <2>4. Pushed # <<>>
      BY <2>2, <2>3
    <2>5. queue' = Pushed /\ cpc' = "trigger" /\ reads' = reads
      BY <1>3 DEF QueueFrame
    <2>6. QED
      BY <2>3, <2>4, <2>5
  <1>4. CASE TriggerEvent
    <2>1. Len(queue) \in 1 .. Len(queue)
      BY <1>4, LenProperties, EmptySeq DEF TriggerEvent, ControlInv, TypeOK
    <2>2. reads \in heap
      BY <1>4, <2>1 DEF TriggerEvent, MemoryInv, FramesHaveMemory
    <2>3. heap' = heap /\ reads' = reads /\ cpc' # "trigger"
      BY <1>4 DEF TriggerEvent, CaptureGoesTo, AfterPacket
    <2>4. QED
      BY <2>2, <2>3
  <1>5. CASE WriteOutput
    BY <1>5 DEF WriteOutput, CaptureGoesTo
  <1>6. CASE Loop
    <2>1. lpc # "handler"
      BY <1>6 DEF Loop, Deliver, GetNextFrame, StopGettingFrames, HandleEvent,
         DeliverNothing, DeliverPop, DeliverCopy, DeliverUnlock, AfterGetting
    <2>2. cpc' = cpc
      BY <1>6 DEF Loop, Deliver, GetNextFrame, StopGettingFrames, HandleEvent,
         DeliverNothing, DeliverPop, DeliverCopy, DeliverUnlock, AfterGetting,
         captureVars
    <2>3. QED
      BY <2>1, <2>2 DEF ControlInv, Control
  <1>7. CASE UNCHANGED vars
    BY <1>7 DEF vars, captureVars
  <1>8. QED
    BY <1>1, <1>2, <1>3, <1>4, <1>5, <1>6, <1>7 DEF Next, Capture, Post

\* Without a capture thread the packet written to the output is in memory, for
\* every queue and every way of splitting it: what HandlerCopies says of the
\* handler mode.
THEOREM HandlerOutput ==
    ASSUME ~Internal
    PROVE  SafeSpec => []OutputCopiesFrame
  <1>1. Init => OutputInv
    BY DEF Init, OutputInv, OutputCopiesFrame
  <1>2. ControlInv /\ MemoryInv /\ OutputInv /\ [Next]_vars => OutputInv'
    BY HandlerKeepsOutput
  <1>3. OutputInv => OutputCopiesFrame
    BY DEF OutputInv
  <1>4. QED
    BY <1>1, <1>2, <1>3, MemoryInvariant, PTL DEF SafeSpec

=============================================================================
