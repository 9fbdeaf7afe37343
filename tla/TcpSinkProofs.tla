--------------------------- MODULE TcpSinkProofs ---------------------------
(***************************************************************************)
(* TCPSink keeps its promises for every size of buffer, every smallest     *)
(* read and every length of stream: the bytes between start and end are    *)
(* the ones that follow those sent, a source that has been asked writes at *)
(* the end of them, and a sink left to itself will be called again.        *)
(***************************************************************************)
EXTENDS TcpSink, TLAPS

(***************************************************************************)
(* The inductive invariant.                                                *)
(***************************************************************************)

\* Every byte the source gave was sent or is in the buffer.
Counted == Len(wire) + end = pos + start

\* The bytes in the buffer are the ones that follow those sent.
Holds == \A i \in start .. end - 1 : buffer[i] = Len(wire) + i - start + 1

\* A source that has been asked for bytes writes them after the last ones.
Asked == /\ awaiting => open /\ to = end /\ room = BufferSize - end
         /\ pc = "answer" => awaiting

\* The source closes only after its last byte, and the sink after its source.
Closed == /\ ~open => pos = Total \/ pc = "new"
          /\ pc = "over" => ~open /\ start = end

\* A handler is set exactly when bytes wait for the socket of a client that
\* stays and was not given up; a buffer that was emptied and not reset has a
\* source writing to it.
Armed == /\ handler => ~writable /\ start < end
         /\ ~writable => handler \/ gone \/ misled
         /\ start = end => end = 0 \/ awaiting \/ (~open /\ pc # "new")
         /\ pc = "read" /\ writable => start = end

IInv == /\ TypeOK /\ Counted /\ Holds /\ WireIsPrefix /\ Asked /\ Closed
        /\ Armed /\ NoStall

(***************************************************************************)
(* What send takes from the buffer.                                        *)
(***************************************************************************)

LEMMA WrittenFacts ==
    ASSUME TypeOK, NEW n \in 0 .. Unwritten
    PROVE  /\ Written(n) \in Seq(Nat) /\ Len(Written(n)) = n
           /\ \A i \in 1 .. n : Written(n)[i] = buffer[start + i - 1]
<1>1. n \in Nat /\ \A i \in 1 .. n : start + i - 1 \in 0 .. BufferSize - 1
  BY BufferAssumption DEF TypeOK, Unwritten
<1>2. \A i \in 1 .. n : buffer[start + i - 1] \in Nat
  BY <1>1 DEF TypeOK
<1>3. Written(n) \in Seq(Nat)
  BY <1>1, <1>2 DEF Written
<1>4. Len(Written(n)) = n
  BY <1>1 DEF Written
<1> QED
  BY <1>3, <1>4 DEF Written

LEMMA ConcatFacts ==
    ASSUME NEW s \in Seq(Nat), NEW t \in Seq(Nat)
    PROVE  /\ s \o t \in Seq(Nat) /\ Len(s \o t) = Len(s) + Len(t)
           /\ \A i \in 1 .. Len(s) : (s \o t)[i] = s[i]
           /\ \A i \in 1 .. Len(t) : (s \o t)[Len(s) + i] = t[i]
OBVIOUS

(***************************************************************************)
(* The steps.                                                              *)
(***************************************************************************)

LEMMA Initially == Init => IInv
<1> SUFFICES ASSUME Init PROVE IInv
  OBVIOUS
<1>1. TypeOK
  <2>1. buffer \in [0 .. BufferSize - 1 -> Nat] /\ wire \in Seq(Nat)
    BY DEF Init
  <2>2. pc \in Pcs
    BY DEF Init, Pcs
  <2>3. /\ start \in 0 .. BufferSize /\ end \in start .. BufferSize
        /\ to \in 0 .. BufferSize /\ room \in 0 .. BufferSize
        /\ pos \in 0 .. Total
    BY BufferAssumption, TotalAssumption DEF Init
  <2>4. /\ open \in BOOLEAN /\ writable \in BOOLEAN /\ handler \in BOOLEAN
        /\ awaiting \in BOOLEAN /\ gone \in BOOLEAN
        /\ pipe \in BOOLEAN /\ misled \in BOOLEAN
    BY Zenon DEF Init
  <2> QED
    BY <2>1, <2>2, <2>3, <2>4, Zenon DEF TypeOK
<1>2. Counted /\ Holds /\ WireIsPrefix
  BY DEF Init, Counted, Holds, WireIsPrefix
<1>3. Asked /\ Closed /\ Armed /\ NoStall
  BY DEF Init, Asked, Closed, Armed, NoStall
<1> QED
  BY <1>1, <1>2, <1>3 DEF IInv

\* What was sent and what is left stay what was read.
LEMMA Balance ==
    ASSUME NEW w \in Nat, NEW s \in Nat, NEW e \in Nat, NEW p \in Nat,
           NEW n \in Nat, NEW s1 \in Nat, NEW e1 \in Nat,
           w + e = p + s, e1 + s + n = e + s1
    PROVE  (w + n) + e1 = p + s1
OBVIOUS

LEMMA SendStep ==
    ASSUME IInv, NEW n \in 0 .. Unwritten, SendBytes(n)
    PROVE  IInv'
<1> DEFINE reset == n > 0 /\ Reset(n)
<1>1. /\ start \in Nat /\ end \in Nat /\ n \in Nat /\ start + n <= end
      /\ Len(wire) \in Nat /\ pos \in Nat /\ start < end /\ end <= BufferSize
  BY BufferAssumption, TotalAssumption DEF IInv, TypeOK, SendBytes, Unwritten
<1>2. \/ reset /\ start' = 0 /\ end' = 0 /\ start + n = end /\ (open => ~awaiting)
      \/ ~reset /\ start' = start + n /\ end' = end
  BY Zenon DEF SendBytes, StartAfter, EndAfter, Reset
<1>3. wire' \in Seq(Nat) /\ Len(wire') = Len(wire) + n
  <2>1. wire \in Seq(Nat) /\ wire' = wire \o Written(n)
    BY DEF IInv, TypeOK, SendBytes
  <2>2. Written(n) \in Seq(Nat) /\ Len(Written(n)) = n
    BY WrittenFacts DEF IInv
  <2> QED
    BY <2>1, <2>2, ConcatFacts
<1>4. TypeOK'
  <2>1. start' \in 0 .. BufferSize /\ end' \in start' .. BufferSize
    BY <1>1, <1>2, BufferAssumption
  <2>2. /\ writable' \in BOOLEAN /\ handler' \in BOOLEAN
        /\ pipe' \in BOOLEAN /\ misled' \in BOOLEAN
    BY Zenon DEF IInv, TypeOK, SendBytes, Rearmed, PipeAfter
  <2>3. awaiting' = awaiting /\ to' = to /\ room' = room
    BY DEF SendBytes, sourceVars
  <2> QED
    BY <1>3, <2>1, <2>2, <2>3 DEF IInv, TypeOK, SendBytes, Pcs
<1>5. Counted'
  <2>1. pos' = pos /\ Len(wire) + end = pos + start
    BY DEF IInv, Counted, SendBytes
  <2>2. end' + start + n = end + start'
    <3> HIDE DEF reset
    <3> QED
      BY <1>1, <1>2
  <2>3. start' \in Nat /\ end' \in Nat
    BY <1>1, <1>2
  <2>4. Len(wire') + end' = pos + start'
    <3> DEFINE before == Len(wire)
               after == Len(wire')
    <3>1. /\ before \in Nat /\ n \in Nat /\ after = before + n
          /\ pos \in Nat /\ start \in Nat /\ end \in Nat
      BY <1>1, <1>3
    <3>2. before + end = pos + start
      BY <2>1
    <3> HIDE DEF reset, before, after
    <3>3. after + end' = pos + start'
      BY <2>2, <2>3, <3>1, <3>2, Balance
    <3> QED
      BY <3>3 DEF after
  <2> QED
    BY <2>1, <2>4 DEF Counted
<1>6. Holds'
  BY <1>1, <1>2, <1>3 DEF IInv, Holds, SendBytes
<1>7. WireIsPrefix'
  <2> SUFFICES ASSUME NEW i \in 1 .. Len(wire') PROVE wire'[i] = i
    BY DEF WireIsPrefix
  <2>1. CASE i <= Len(wire)
    <3>1. wire'[i] = wire[i]
      BY <2>1, <1>1, <1>3, WrittenFacts, ConcatFacts DEF IInv, TypeOK, SendBytes
    <3> QED
      BY <2>1, <3>1, <1>1 DEF IInv, WireIsPrefix
  <2>2. CASE i > Len(wire)
    <3>1. i - Len(wire) \in 1 .. n
      BY <2>2, <1>1, <1>3
    <3>2. wire'[i] = Written(n)[i - Len(wire)]
      BY <2>2, <3>1, <1>1, <1>3, WrittenFacts, ConcatFacts
      DEF IInv, TypeOK, SendBytes
    <3>3. wire'[i] = buffer[start + (i - Len(wire)) - 1]
      BY <3>1, <3>2, WrittenFacts DEF IInv
    <3>4. start + (i - Len(wire)) - 1 \in start .. end - 1
      BY <3>1, <1>1
    <3> QED
      BY <3>1, <3>3, <3>4, <1>1 DEF IInv, Holds
  <2> QED
    BY <2>1, <2>2, <1>1, <1>3
<1>8. Asked' /\ Closed'
  BY <1>1, <1>2 DEF IInv, Asked, Closed, SendBytes, sourceVars
<1>9. Armed'
  <2>1. writable /\ ~handler
    BY DEF IInv, Armed, SendBytes
  <2>2. CASE n < Unwritten
    <3>1. (handler' \/ misled') /\ ~writable'
      <4>1. n # Unwritten
        BY <2>2, <1>1 DEF Unwritten
      <4> QED
        BY <2>2, <4>1, Zenon DEF SendBytes, Rearmed
    <3>2. start' < end' /\ start' # end'
      BY <2>2, <1>1, <1>2 DEF Unwritten
    <3> QED
      BY <3>1, <3>2, Zenon DEF Armed
  <2>3. CASE n = Unwritten
    <3>1. ~handler' /\ writable'
      <4>1. ~(n < Unwritten)
        BY <2>3, <1>1 DEF Unwritten
      <4> QED
        BY <2>1, <2>3, <4>1, Zenon DEF SendBytes
    <3>2. start' = end' /\ n > 0 /\ start + n = end
      BY <2>3, <1>1, <1>2 DEF Unwritten
    <3>3. awaiting' = awaiting /\ open' = open
      BY DEF SendBytes, sourceVars
    <3>4. end' = 0 \/ awaiting' \/ (~open' /\ pc' # "new")
      <4>1. pc' # "new"
        BY DEF SendBytes
      <4> QED
        BY <1>2, <3>2, <3>3, <4>1, Zenon DEF Reset
    <3> QED
      BY <3>1, <3>2, <3>4, Zenon DEF Armed
  <2> QED
    BY <1>1, <2>2, <2>3 DEF Unwritten
<1>10. NoStall'
  BY DEF NoStall, SendBytes
<1> QED
  BY <1>4, <1>5, <1>6, <1>7, <1>8, <1>9, <1>10 DEF IInv

\* A step that moves no byte keeps everything but the control of the sink.
LEMMA ControlStep ==
    ASSUME IInv,
           UNCHANGED <<buffer, start, end, pos, wire>>,
           TypeOK', Asked', Closed', Armed', NoStall'
    PROVE  IInv'
BY DEF IInv, Counted, Holds, WireIsPrefix

LEMMA ContinueStep == IInv /\ ContinuePlaying => IInv'
<1> SUFFICES ASSUME IInv, ContinuePlaying PROVE IInv'
  OBVIOUS
<1>1. TypeOK'
  BY DEF IInv, TypeOK, ContinuePlaying, Pcs, sourceVars, errnoVars
<1>2. Asked' /\ Closed' /\ NoStall'
  BY DEF IInv, Asked, Closed, NoStall, ContinuePlaying, sourceVars, errnoVars
<1>3. Armed'
  BY Zenon DEF IInv, Armed, ContinuePlaying, sourceVars, errnoVars
<1> QED
  BY <1>1, <1>2, <1>3, ControlStep DEF ContinuePlaying

LEMMA BrokenStep == IInv /\ SendBroken => IInv'
<1> SUFFICES ASSUME IInv, SendBroken PROVE IInv'
  OBVIOUS
<1>1. TypeOK'
  BY DEF IInv, TypeOK, SendBroken, Pcs, sourceVars, errnoVars
<1>2. Asked' /\ Closed' /\ Armed' /\ NoStall'
  BY DEF IInv, Asked, Closed, Armed, NoStall, SendBroken, sourceVars, errnoVars
<1> QED
  BY <1>1, <1>2, ControlStep DEF SendBroken

LEMMA NothingStep == IInv /\ NothingToSend => IInv'
<1> SUFFICES ASSUME IInv, NothingToSend PROVE IInv'
  OBVIOUS
<1>1. TypeOK'
  BY DEF IInv, TypeOK, NothingToSend, sinkVars, sourceVars, errnoVars, Pcs
<1>2. writable => start = end
  BY DEF IInv, TypeOK, NothingToSend, Unwritten, sourceVars, errnoVars
<1>3. Asked' /\ Closed' /\ NoStall'
  BY
  DEF IInv, Asked, Closed, NoStall, NothingToSend, sinkVars, sourceVars, errnoVars
<1>4. Armed'
  BY <1>2 DEF IInv, Armed, NothingToSend, sinkVars, sourceVars, errnoVars
<1> QED
  BY <1>1, <1>3, <1>4, ControlStep DEF NothingToSend, sinkVars

LEMMA AskStep == IInv /\ AskSource => IInv'
<1> SUFFICES ASSUME IInv, AskSource PROVE IInv'
  OBVIOUS
<1>1. TypeOK'
  BY BufferAssumption
  DEF IInv, TypeOK, AskSource, sinkVars, sourceVars, errnoVars, Pcs, FreeSpace
<1>2. Asked' /\ Closed' /\ NoStall'
  BY
  DEF IInv, Asked, Closed, NoStall, AskSource, sinkVars, Reads, FreeSpace,
      sourceVars, errnoVars
<1>3. Armed'
  BY DEF IInv, Armed, AskSource, sinkVars, sourceVars, errnoVars
<1> QED
  BY <1>1, <1>2, <1>3, ControlStep DEF AskSource, sinkVars

LEMMA EndStep == IInv /\ OnSourceClosure => IInv'
<1> SUFFICES ASSUME IInv, OnSourceClosure PROVE IInv'
  OBVIOUS
<1>1. TypeOK'
  BY DEF IInv, TypeOK, OnSourceClosure, sinkVars, sourceVars, errnoVars, Pcs
<1>2. start = end /\ ~open
  BY DEF IInv, TypeOK, OnSourceClosure, Ends, Unwritten
<1>3. Asked' /\ Closed' /\ NoStall'
  BY <1>2
  DEF IInv, Asked, Closed, NoStall, OnSourceClosure, sinkVars, sourceVars,
      errnoVars
<1>4. Armed'
  BY DEF IInv, Armed, OnSourceClosure, sinkVars, sourceVars, errnoVars
<1> QED
  BY <1>1, <1>3, <1>4, ControlStep DEF OnSourceClosure, sinkVars

LEMMA WaitStep == IInv /\ Wait => IInv'
<1> SUFFICES ASSUME IInv, Wait PROVE IInv'
  OBVIOUS
<1>1. TypeOK'
  BY DEF IInv, TypeOK, Wait, sinkVars, sourceVars, errnoVars, Pcs
<1>2. Asked' /\ Closed' /\ Armed'
  BY DEF IInv, Asked, Closed, Armed, Wait, sinkVars, sourceVars, errnoVars
<1>3. awaiting \/ start # end
  <2>1. ~open => start # end
    BY DEF IInv, TypeOK, Wait, Ends, Unwritten
  <2>2. open /\ ~awaiting => end # 0
    BY BufferAssumption
    DEF IInv, TypeOK, Wait, Reads, FreeSpace, sourceVars, errnoVars
  <2> QED
    BY <2>1, <2>2 DEF IInv, Armed
<1>4. NoStall'
  BY <1>3 DEF IInv, Armed, NoStall, Wait, sinkVars, sourceVars, errnoVars
<1> QED
  BY <1>1, <1>2, <1>4, ControlStep DEF Wait, sinkVars

LEMMA FrameStep ==
    ASSUME IInv, NEW n \in 1 .. AtMost, AfterGettingFrame(n)
    PROVE  IInv'
<1>1. awaiting /\ open /\ to = end /\ room = BufferSize - end
  BY DEF IInv, Asked, AfterGettingFrame, Answers
<1>2. /\ start \in Nat /\ end \in Nat /\ start <= end /\ pos \in Nat
      /\ n \in Nat /\ n > 0 /\ end + n <= BufferSize /\ pos + n <= Total
      /\ Len(wire) \in Nat
  BY <1>1, BufferAssumption, TotalAssumption DEF IInv, TypeOK, AtMost
<1>3. /\ start' = start /\ end' = end + n /\ pos' = pos + n /\ wire' = wire
      /\ open' = open /\ awaiting' = FALSE /\ pc' = "write"
      /\ writable' = writable /\ handler' = handler /\ gone' = gone
      /\ pipe' = pipe /\ misled' = misled
  BY DEF AfterGettingFrame, sourceVars, errnoVars
<1>4. \A i \in 0 .. BufferSize - 1 :
         buffer'[i] = IF i \in end .. end + n - 1 THEN pos + i - end + 1
                                                  ELSE buffer[i]
  BY <1>1 DEF IInv, TypeOK, AfterGettingFrame, sourceVars, errnoVars
<1>5. buffer' \in [0 .. BufferSize - 1 -> Nat]
  <2>1. \A i \in 0 .. BufferSize - 1 :
           (IF i \in to .. to + n - 1 THEN pos + i - to + 1 ELSE buffer[i]) \in Nat
    BY <1>1, <1>2, BufferAssumption DEF IInv, TypeOK
  <2> QED
    BY <2>1 DEF IInv, TypeOK, AfterGettingFrame, sourceVars, errnoVars
<1>6. TypeOK'
  <2>1. end' \in start' .. BufferSize /\ pos' \in 0 .. Total
    BY <1>2, <1>3, BufferAssumption, TotalAssumption
  <2>2. awaiting' \in BOOLEAN /\ pc' \in Pcs
    BY <1>3 DEF Pcs
  <2>3. to' = to /\ room' = room
    BY DEF AfterGettingFrame, sourceVars, errnoVars
  <2> QED
    BY <1>3, <1>5, <2>1, <2>2, <2>3, Zenon DEF IInv, TypeOK
<1>7. Counted' /\ WireIsPrefix'
  BY <1>2, <1>3 DEF IInv, Counted, WireIsPrefix
<1>8. Holds'
  <2> SUFFICES ASSUME NEW i \in start' .. end' - 1
               PROVE  buffer'[i] = Len(wire') + i - start' + 1
    BY DEF Holds
  <2>1. i \in 0 .. BufferSize - 1
    BY <1>2, <1>3, BufferAssumption
  <2>2. CASE i < end
    BY <2>1, <2>2, <1>2, <1>3, <1>4 DEF IInv, Holds
  <2>3. CASE i >= end
    BY <2>1, <2>3, <1>2, <1>3, <1>4 DEF IInv, Counted
  <2> QED
    BY <2>1, <2>2, <2>3, <1>2
<1>9. Asked' /\ Closed' /\ NoStall'
  BY <1>1, <1>3 DEF Asked, Closed, NoStall
<1>10. Armed'
  <2>1. start' < end' /\ start' # end'
    BY <1>2, <1>3
  <2> QED
    BY <1>3, <2>1 DEF IInv, Armed
<1> QED
  BY <1>6, <1>7, <1>8, <1>9, <1>10 DEF IInv

LEMMA ClosureStep == IInv /\ OurOnSourceClosure => IInv'
<1> SUFFICES ASSUME IInv, OurOnSourceClosure PROVE IInv'
  OBVIOUS
<1>1. TypeOK'
  BY DEF IInv, TypeOK, OurOnSourceClosure, Pcs, sourceVars, errnoVars
<1>2. Asked' /\ Closed' /\ NoStall'
  BY DEF IInv, Asked, Closed, NoStall, OurOnSourceClosure, sourceVars, errnoVars
<1>3. Armed'
  BY DEF IInv, Armed, OurOnSourceClosure, sourceVars, errnoVars
<1> QED
  BY <1>1, <1>2, <1>3, ControlStep DEF OurOnSourceClosure

LEMMA WritableStep == IInv /\ SocketWritable => IInv'
<1> SUFFICES ASSUME IInv, SocketWritable PROVE IInv'
  OBVIOUS
<1>1. TypeOK'
  BY DEF IInv, TypeOK, SocketWritable, Pcs, sourceVars, errnoVars
<1>2. Asked' /\ Closed' /\ NoStall'
  BY DEF IInv, Asked, Closed, NoStall, SocketWritable, sourceVars, errnoVars
<1>3. Armed'
  BY DEF IInv, Armed, SocketWritable, sourceVars, errnoVars
<1> QED
  BY <1>1, <1>2, <1>3, ControlStep DEF SocketWritable

LEMMA LeaveStep == IInv /\ ClientLeaves => IInv'
<1> SUFFICES ASSUME IInv, ClientLeaves PROVE IInv'
  OBVIOUS
<1>1. TypeOK'
  BY DEF IInv, TypeOK, ClientLeaves, sinkVars, sourceVars, errnoVars, Pcs
<1>2. Asked' /\ Closed' /\ Armed' /\ NoStall'
  BY
  DEF IInv, Asked, Closed, Armed, NoStall, ClientLeaves, sinkVars, sourceVars,
      errnoVars
<1> QED
  BY <1>1, <1>2, ControlStep DEF ClientLeaves, sinkVars

LEMMA OtherStep == IInv /\ OtherHandlers => IInv'
<1> SUFFICES ASSUME IInv, OtherHandlers PROVE IInv'
  OBVIOUS
<1>1. TypeOK'
  BY DEF IInv, TypeOK, OtherHandlers, sinkVars, sourceVars
<1>2. Asked' /\ Closed' /\ Armed' /\ NoStall'
  BY
  DEF IInv, Asked, Closed, Armed, NoStall, OtherHandlers, sinkVars, sourceVars
<1> QED
  BY <1>1, <1>2, ControlStep DEF OtherHandlers, sinkVars

LEMMA StutterStep == IInv /\ UNCHANGED vars => IInv'
BY DEF IInv, TypeOK, Counted, Holds, WireIsPrefix, Asked, Closed, Armed,
       NoStall, vars, sinkVars, sourceVars, errnoVars

LEMMA SendNoneIsSend == IInv => 0 \in 0 .. Unwritten
BY BufferAssumption DEF IInv, TypeOK, Unwritten

LEMMA SendSomeIsSend ==
    ASSUME IInv, NEW n \in 1 .. Unwritten
    PROVE  n \in 0 .. Unwritten
BY BufferAssumption DEF IInv, TypeOK, Unwritten

LEMMA NextStep == IInv /\ [Next]_vars => IInv'
<1> SUFFICES ASSUME IInv, [Next]_vars PROVE IInv'
  OBVIOUS
<1>1. CASE SendSome
  BY <1>1, SendStep, SendSomeIsSend DEF SendSome
<1>2. CASE SendNone
  BY <1>2, SendStep, SendNoneIsSend DEF SendNone
<1>3. CASE GiveFrame
  BY <1>3, FrameStep DEF GiveFrame
<1> QED
  BY <1>1, <1>2, <1>3, ContinueStep, BrokenStep, NothingStep, AskStep, EndStep,
     WaitStep, ClosureStep, WritableStep, LeaveStep, OtherStep, StutterStep
  DEF Next, ProcessBuffer, SourceAnswers

LEMMA Inductive == SafeSpec => []IInv
BY Initially, NextStep, PTL DEF SafeSpec

(***************************************************************************)
(* The theorems.                                                           *)
(***************************************************************************)

\* The indices of the buffer stay within it, and every variable keeps its type.
THEOREM SinkTypes == SafeSpec => []TypeOK
<1>1. IInv => TypeOK
  BY DEF IInv
<1> QED
  BY <1>1, Inductive, PTL

\* The client receives the bytes of the source in order and without a hole.
THEOREM WireInOrder == SafeSpec => []WireIsPrefix
<1>1. IInv => WireIsPrefix
  BY DEF IInv
<1> QED
  BY <1>1, Inductive, PTL

\* Order, completeness and the bounds of the buffer, together.
THEOREM BytesInOrder == SafeSpec => []SentInOrder
<1>1. TypeOK /\ WireIsPrefix => SentInOrder
  BY DEF SentInOrder
<1> QED
  BY <1>1, SinkTypes, WireInOrder, PTL

\* The end of the stream is reported only when every byte was sent.
THEOREM EndsComplete == SafeSpec => []EndIsComplete
<1>1. IInv => EndIsComplete
  <2> SUFFICES ASSUME IInv, pc = "over" PROVE Len(wire) = Total
    BY DEF EndIsComplete
  <2>1. start = end /\ pos = Total
    BY DEF IInv, Closed
  <2>2. Len(wire) \in Nat /\ end \in Nat /\ pos \in Nat
    BY BufferAssumption, TotalAssumption DEF IInv, TypeOK
  <2> QED
    BY <2>1, <2>2 DEF IInv, Counted
<1> QED
  BY <1>1, Inductive, PTL

\* Whenever the loop leaves the sink, something will call it again, unless the
\* client is gone or took a part of a send under an EPIPE of another socket.
THEOREM NeverStalls == SafeSpec => []NoStall
<1>1. IInv => NoStall
  BY DEF IInv
<1> QED
  BY <1>1, Inductive, PTL

\* The sink implements the safety of the stream of bytes.
THEOREM StreamSafety == SafeSpec => Stream!SafeSpec
<1>1. Init => Stream!Init
  BY DEF Init, Stream!Init
<1>2. IInv /\ [Next]_vars => [Stream!Next]_(Stream!vars)
  <2> SUFFICES ASSUME IInv, [Next]_vars
               PROVE  Stream!Next \/ UNCHANGED Stream!vars
    OBVIOUS
  <2>1. Len(wire) \in Nat /\ pos \in Nat /\ Len(wire) + Unwritten = pos
    BY BufferAssumption, TotalAssumption DEF IInv, TypeOK, Counted, Unwritten
  <2>2. ASSUME NEW n \in 0 .. Unwritten, SendBytes(n)
        PROVE  Stream!Send \/ UNCHANGED Stream!vars
    <3>1. /\ pos' = pos /\ gone' = gone /\ pc = "write" /\ pc' = "read"
          /\ misled' = (misled \/ (n < Unwritten /\ n > 0 /\ pipe))
      BY <2>2 DEF SendBytes, PipeAfter
    <3>0. Len(wire') = Len(wire) + n
      BY <2>2, WrittenFacts, ConcatFacts DEF IInv, TypeOK, SendBytes
    <3>2. n \in Nat /\ n <= Unwritten /\ Unwritten \in Nat
      BY BufferAssumption DEF IInv, TypeOK, Unwritten
    <3>3. CASE n = 0
      <4>1. Len(wire') = Len(wire) /\ ~(n > 0)
        BY <2>1, <3>0, <3>3
      <4>2. (gone \/ misled)' = (gone \/ misled)
        BY <3>1, <4>1, Zenon
      <4> QED
        BY <3>1, <4>1, <4>2 DEF Stream!vars
    <3>4. CASE n > 0
      <4>1. Len(wire') \in Len(wire) + 1 .. pos
        BY <2>1, <3>0, <3>2, <3>4
      <4>2. n < Unwritten <=> Len(wire') < pos
        BY <2>1, <3>0, <3>2
      <4>3. (gone \/ misled)' \in
               {gone \/ misled, (gone \/ misled) \/ Len(wire') < pos}
        <5>1. (gone \/ misled)' = (gone \/ misled \/ (n < Unwritten /\ n > 0 /\ pipe))
          BY <3>1
        <5>2. CASE n > 0 /\ pipe
          BY <4>2, <5>1, <5>2, Zenon
        <5>3. CASE ~(n > 0 /\ pipe)
          BY <5>1, <5>3, Zenon
        <5> QED
          BY <5>2, <5>3
      <4> QED
        BY <3>1, <4>1, <4>3 DEF Stream!Send
    <3> QED
      BY <3>2, <3>3, <3>4
  <2>3. CASE SendSome
    BY <2>2, <2>3, SendSomeIsSend DEF SendSome, Stream!Next
  <2>4. CASE SendNone
    BY <2>2, <2>4, SendNoneIsSend DEF SendNone, Stream!Next
  <2>5. CASE GiveFrame
    <3> PICK n \in 1 .. AtMost : AfterGettingFrame(n)
      BY <2>5 DEF GiveFrame
    <3>1. /\ pc # "over" /\ pc' = "write" /\ pos' = pos + n /\ wire' = wire
          /\ gone' = gone /\ misled' = misled
      BY DEF AfterGettingFrame, Answers, errnoVars
    <3>2. pos + n \in pos + 1 .. Total
      BY <2>1, TotalAssumption DEF AtMost, IInv, TypeOK
    <3> QED
      BY <3>1, <3>2 DEF Stream!Take, Stream!Next
  <2>6. CASE OnSourceClosure
    <3>1. Unwritten = 0 /\ ~open /\ pc = "read"
      BY <2>6 DEF OnSourceClosure, Ends
    <3>2. Len(wire) = Total
      BY <2>1, <3>1 DEF IInv, Closed
    <3>3. /\ pc' = "over" /\ wire' = wire /\ pos' = pos /\ gone' = gone
          /\ misled' = misled
      BY <2>6 DEF OnSourceClosure, errnoVars
    <3> QED
      BY <3>1, <3>2, <3>3 DEF Stream!Finish, Stream!Next
  <2>7. CASE ClientLeaves
    BY <2>7 DEF ClientLeaves, errnoVars, Stream!Leave, Stream!Next
  <2>8. CASE ContinuePlaying
    BY <2>8 DEF ContinuePlaying, errnoVars, Stream!vars
  <2>9. CASE SendBroken
    BY <2>9 DEF SendBroken, Stream!vars
  <2>10. CASE NothingToSend
    BY <2>10 DEF NothingToSend, errnoVars, Stream!vars
  <2>11. CASE AskSource
    BY <2>11 DEF AskSource, errnoVars, Stream!vars
  <2>12. CASE Wait
    BY <2>12 DEF Wait, errnoVars, Stream!vars
  <2>13. CASE OurOnSourceClosure
    BY <2>13 DEF OurOnSourceClosure, Answers, errnoVars, Stream!vars
  <2>14. CASE SocketWritable
    BY <2>14 DEF SocketWritable, errnoVars, Stream!vars
  <2>15. CASE UNCHANGED vars
    BY <2>15 DEF vars, errnoVars, Stream!vars
  <2>16. CASE OtherHandlers
    BY <2>16 DEF OtherHandlers, Stream!vars
  <2> QED
    BY <2>3, <2>4, <2>5, <2>6, <2>7, <2>8, <2>9, <2>10, <2>11, <2>12, <2>13,
       <2>14, <2>15, <2>16
    DEF Next, ProcessBuffer, SourceAnswers
<1> QED
  BY <1>1, <1>2, Inductive, PTL DEF SafeSpec, Stream!SafeSpec

=============================================================================
