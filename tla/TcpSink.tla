------------------------------ MODULE TcpSink ------------------------------
(***************************************************************************)
(* TCPSink: streams a FramedSource to the socket of a client through a     *)
(* buffer of fixed size.  Bytes read are put at fUnwrittenBytesEnd, bytes  *)
(* sent are taken at fUnwrittenBytesStart; both go back to the start of    *)
(* the buffer when it has become empty.  Everything runs in the event      *)
(* loop; the source answers at once, as ByteStreamMemoryBufferSource does, *)
(* or in a later turn of the loop, as live555 sources in general may, and  *)
(* then the loop can run the handler of the socket in between.  A frame of *)
(* the source has a byte at least.  The bytes of it are 1 .. Total.  What  *)
(* else runs in the loop shares errno with the sink.                       *)
(***************************************************************************)
EXTENDS Naturals, Sequences

CONSTANTS
    BufferSize,  \* TCP_STREAM_SINK_BUFFER_SIZE
    MinRead,     \* TCP_STREAM_SINK_MIN_READ_SIZE
    Total        \* bytes of the source

ASSUME BufferAssumption == BufferSize \in Nat /\ MinRead \in 1 .. BufferSize
ASSUME TotalAssumption  == Total \in Nat

VARIABLES
    buffer,          \* fBuffer
    start, end,      \* fUnwrittenBytesStart, fUnwrittenBytesEnd
    open,            \* fInputSourceIsOpen
    writable,        \* fOutputSocketIsWritable
    handler,         \* a handler waits for the socket to be writable
    awaiting, to, room,  \* the source: isCurrentlyAwaitingData(), fTo, fMaxSize
    pos,             \* bytes the source has given
    wire,            \* bytes the socket has taken
    gone,            \* the client has closed its end: send gives EPIPE
    pipe,            \* errno of the thread of the loop is EPIPE
    misled,          \* history: a send of a part met an EPIPE that was not its own
    pc               \* where processBuffer is

sinkVars == <<start, end, open, writable, handler>>
sourceVars == <<awaiting, to, room>>
errnoVars == <<pipe, misled>>
vars == <<buffer, sinkVars, sourceVars, pos, wire, gone, errnoVars, pc>>

Init == /\ buffer = [i \in 0 .. BufferSize - 1 |-> 0]
        /\ start = 0 /\ end = 0
        /\ open = FALSE /\ writable = TRUE /\ handler = FALSE
        /\ awaiting = FALSE /\ to = 0 /\ room = 0 /\ pos = 0
        /\ wire = <<>> /\ gone = FALSE /\ pc = "new"
        /\ pipe \in BOOLEAN /\ misled = FALSE

Unwritten == end - start

FreeSpace == BufferSize - end

ContinuePlaying == /\ pc = "new"
                   /\ open' = TRUE /\ pc' = "write"
                   /\ UNCHANGED <<buffer, start, end, writable, handler,
                                  sourceVars, pos, wire, gone, errnoVars>>

-----------------------------------------------------------------------------
(* processBuffer, first half: write to the socket. *)

Written(n) == [i \in 1 .. n |-> buffer[start + i - 1]]

\* Fault: the buffer is reset under a source that is about to write to it.
ResetEarly(n) == start + n = end

Reset(n) == start + n = end /\ (~open \/ ~awaiting)

StartAfter(n) == IF n > 0 /\ Reset(n) THEN 0 ELSE start + n

EndAfter(n) == IF n > 0 /\ Reset(n) THEN 0 ELSE end

\* A send that fails for want of room leaves EAGAIN; one that takes a part of
\* the bytes has not failed, and leaves errno as it is.
PipeAfter(n) == n > 0 /\ pipe

\* Fault: after a partial write nobody waits for the socket.
NoHandler(n) == handler

Rearmed(n) == ~PipeAfter(n)

SendBytes(n) ==
    /\ pc = "write" /\ writable /\ Unwritten > 0 /\ ~gone
    /\ wire' = wire \o Written(n)
    /\ writable' = (n = Unwritten)
    /\ handler' = IF n < Unwritten THEN Rearmed(n) ELSE handler
    /\ start' = StartAfter(n)
    /\ end' = EndAfter(n)
    /\ pipe' = PipeAfter(n)
    /\ misled' = (misled \/ (n < Unwritten /\ PipeAfter(n)))
    /\ pc' = "read"
    /\ UNCHANGED <<buffer, open, sourceVars, pos, gone>>

SendSome == \E n \in 1 .. Unwritten : SendBytes(n)

SendNone == SendBytes(0)

\* EPIPE: the socket is no longer usable and no handler is set.
SendBroken == /\ pc = "write" /\ writable /\ Unwritten > 0 /\ gone
              /\ writable' = FALSE /\ pipe' = TRUE /\ pc' = "read"
              /\ UNCHANGED <<buffer, start, end, open, handler, sourceVars,
                             pos, wire, gone, misled>>

NothingToSend == /\ pc = "write" /\ ~(writable /\ Unwritten > 0)
                 /\ pc' = "read"
                 /\ UNCHANGED <<buffer, sinkVars, sourceVars, pos, wire, gone,
                                errnoVars>>

-----------------------------------------------------------------------------
(* processBuffer, second half: read from the source. *)

\* Fault: the room left is not looked at.
ReadsAlways == open /\ ~awaiting

Reads == open /\ FreeSpace >= MinRead /\ ~awaiting

AskSource == /\ pc = "read" /\ Reads
             /\ awaiting' = TRUE /\ to' = end /\ room' = FreeSpace
             /\ pc' \in {"answer", "idle"}
             /\ UNCHANGED <<buffer, sinkVars, pos, wire, gone, errnoVars>>

Ends == ~open /\ Unwritten = 0

OnSourceClosure == /\ pc = "read" /\ ~Reads /\ Ends
                   /\ pc' = "over"
                   /\ UNCHANGED <<buffer, sinkVars, sourceVars, pos, wire, gone,
                                  errnoVars>>

Wait == /\ pc = "read" /\ ~Reads /\ ~Ends
        /\ pc' = "idle"
        /\ UNCHANGED <<buffer, sinkVars, sourceVars, pos, wire, gone, errnoVars>>

-----------------------------------------------------------------------------
(* What calls processBuffer again. *)

Answers == pc = "answer" \/ (pc = "idle" /\ awaiting)

\* The source has written n bytes at fTo; afterGettingFrame.
AfterGettingFrame(n) ==
    /\ Answers
    /\ buffer' = [i \in DOMAIN buffer |->
                     IF i \in to .. to + n - 1 THEN pos + i - to + 1
                                               ELSE buffer[i]]
    /\ pos' = pos + n
    /\ end' = end + n
    /\ awaiting' = FALSE /\ pc' = "write"
    /\ UNCHANGED <<start, open, writable, handler, to, room, wire, gone,
                   errnoVars>>

AtMost == IF Total - pos < room THEN Total - pos ELSE room

GiveFrame == \E n \in 1 .. AtMost : AfterGettingFrame(n)

OurOnSourceClosure == /\ Answers /\ pos = Total
                      /\ open' = FALSE /\ awaiting' = FALSE /\ pc' = "write"
                      /\ UNCHANGED <<buffer, start, end, writable, handler, to,
                                     room, pos, wire, gone, errnoVars>>

SocketWritable == /\ pc = "idle" /\ handler
                  /\ handler' = FALSE /\ writable' = TRUE /\ pc' = "write"
                  /\ UNCHANGED <<buffer, start, end, open, sourceVars, pos,
                                 wire, gone, errnoVars>>

ClientLeaves == /\ ~gone /\ gone' = TRUE
                /\ UNCHANGED <<buffer, sinkVars, sourceVars, pos, wire,
                               errnoVars, pc>>

\* Between two calls of the sink the loop serves other sockets, and the last
\* call that fails leaves its errno.
OtherHandlers == /\ pc \in {"new", "answer", "idle"}
                 /\ pipe' \in BOOLEAN
                 /\ UNCHANGED <<buffer, sinkVars, sourceVars, pos, wire, gone,
                                misled, pc>>

ProcessBuffer == \/ SendSome \/ SendNone \/ SendBroken \/ NothingToSend
                 \/ AskSource \/ OnSourceClosure \/ Wait

SourceAnswers == GiveFrame \/ OurOnSourceClosure

Next == \/ ContinuePlaying \/ ProcessBuffer \/ SourceAnswers
        \/ SocketWritable \/ ClientLeaves \/ OtherHandlers

SafeSpec == Init /\ [][Next]_vars

\* The loop runs what is due, the source answers, and the socket of a client
\* that stays becomes writable and takes bytes again and again.
Spec == /\ SafeSpec
        /\ WF_vars(ContinuePlaying) /\ WF_vars(ProcessBuffer)
        /\ WF_vars(SourceAnswers) /\ WF_vars(SocketWritable)
        /\ SF_vars(SendSome)

-----------------------------------------------------------------------------
(* Properties. *)

Pcs == {"new", "write", "read", "answer", "idle", "over"}

TypeOK ==
    /\ buffer \in [0 .. BufferSize - 1 -> Nat]
    /\ start \in 0 .. BufferSize /\ end \in start .. BufferSize
    /\ open \in BOOLEAN /\ writable \in BOOLEAN /\ handler \in BOOLEAN
    /\ awaiting \in BOOLEAN /\ to \in 0 .. BufferSize /\ room \in 0 .. BufferSize
    /\ pos \in 0 .. Total /\ wire \in Seq(Nat)
    /\ gone \in BOOLEAN /\ pipe \in BOOLEAN /\ misled \in BOOLEAN /\ pc \in Pcs

\* The client receives the bytes of the source in order and without a hole,
\* however the buffer is filled, emptied and reset.
WireIsPrefix == \A i \in 1 .. Len(wire) : wire[i] = i

\* The same with the bounds of the buffer: no read or write goes beyond it.
SentInOrder == TypeOK /\ WireIsPrefix

\* The sink reports the end of the stream only when every byte was sent.
EndIsComplete == pc = "over" => Len(wire) = Total

\* When the loop leaves the sink, something will call it again: the source, or
\* the handler of the socket.  It is left with neither by an EPIPE of a client
\* that is gone, and by a client that stays and takes a part of the bytes while
\* errno still says EPIPE of another socket; nothing else does that.
NoStall == pc = "idle" => awaiting \/ handler \/ (~writable /\ (gone \/ misled))

\* The sink implements the stream of bytes of ByteStream: for a client that
\* stays, and that no errno of another socket made it give up, it goes on to
\* the end.
Stream == INSTANCE ByteStream WITH
              taken <- pos, sent <- Len(wire), over <- pc = "over",
              lost <- gone \/ misled

ImplementsStream == Stream!Spec

=============================================================================
