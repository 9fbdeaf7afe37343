--------------------------- MODULE DeviceSource ---------------------------
(***************************************************************************)
(* V4L2DeviceSource: frames go from a capture device to a live555 sink     *)
(* through m_captureQueue.  Two threads share the queue:                   *)
(*                                                                         *)
(*   - the event loop of live555 runs deliverFrame(), either because the   *)
(*     sink asked for a frame (doGetNextFrame) or because the event        *)
(*     trigger of the source is set;                                       *)
(*   - the capture code reads a packet from the device, splits it into     *)
(*     frames and queues them one by one, each followed by triggerEvent(). *)
(*     It runs in a thread of its own (CAPTURE_INTERNAL_THREAD) or as a    *)
(*     read handler of the event loop (CAPTURE_LIVE555_THREAD, option -s). *)
(*                                                                         *)
(* A frame does not own the memory it points to: all frames of a packet    *)
(* point into the buffer the packet was read into, and only the last one   *)
(* frees it.  Buffers are numbered by the read that allocated them.        *)
(***************************************************************************)
EXTENDS Naturals, Sequences

CONSTANTS
    QueueSize,    \* m_queueSize, option -Q
    MaxSize,      \* fMaxSize, the room the sink gives for a frame
    Packets,      \* what splitFrames may return: sequences of frame sizes
    Outcomes,     \* what m_device->read may answer: "packet", "nodata", "error"
    Internal,     \* CAPTURE_INTERNAL_THREAD rather than CAPTURE_LIVE555_THREAD
    CopyOutput,   \* m_outfd # -1, option -O
    MaxReads      \* bound: number of reads in a behaviour

ASSUME QueueSizeAssumption == QueueSize \in Nat \ {0}
ASSUME MaxSizeAssumption   == MaxSize \in Nat \ {0}
ASSUME PacketsAssumption   == Packets \subseteq Seq(Nat)
ASSUME OutcomesAssumption  == Outcomes \subseteq {"packet", "nodata", "error"}
ASSUME SwitchAssumption    == Internal \in BOOLEAN /\ CopyOutput \in BOOLEAN
ASSUME MaxReadsAssumption  == MaxReads \in Nat

VARIABLES
    queue,      \* m_captureQueue
    pending,    \* the event trigger m_eventTriggerId is set
    heap,       \* packet buffers allocated and not freed
    leaked,     \* history: buffers that nothing will ever free
    cpc,        \* control state of the capture code
    reads,      \* reads done; also the number of the current packet buffer
    todo,       \* sizes of the frames of the packet still to be queued
    posted,     \* number of frames queued so far
    lpc,        \* control state of the event loop
    awaiting,   \* fIsCurrentlyAwaitingData
    client,     \* fOnCloseFunc is set: somebody asked for a frame
    closed,     \* the client was told that the source is closed
    frame,      \* the frame popped by the last deliverFrame
    fFrameSize,
    fNumTruncatedBytes,
    last        \* history: the last frame given to the sink

loopVars    == <<awaiting, client, closed, frame, fFrameSize,
                 fNumTruncatedBytes, last>>
captureVars == <<cpc, reads, todo, posted>>
vars == <<queue, pending, heap, leaked, captureVars, lpc, loopVars>>

Frame == [seq : Nat, size : Nat, buf : Nat, owner : BOOLEAN]

NoFrame == [seq |-> 0, size |-> 0, buf |-> 0, owner |-> FALSE]

Init == /\ queue = <<>> /\ pending = FALSE /\ heap = {} /\ leaked = {}
        /\ cpc = "select" /\ reads = 0 /\ todo = <<>> /\ posted = 0
        /\ lpc = "idle" /\ awaiting = FALSE /\ client = FALSE /\ closed = FALSE
        /\ frame = NoFrame /\ fFrameSize = 0 /\ fNumTruncatedBytes = 0
        /\ last = 0

\* m_mutex is held by deliverFrame between its lock and its unlock.  The
\* critical section of queueFrame is one action and needs no state for it.
LoopHoldsMutex == lpc \in {"copy", "unlock"}

\* "delete f" frees the packet buffer when f is the frame that owns it.
OwnedBy(f) == IF f.owner THEN {f.buf} ELSE {}

-----------------------------------------------------------------------------
(* The capture code. *)

\* In live555 mode the capture code is a handler: it starts when the loop is
\* between two handlers and holds the loop until it returns.
MayRead == cpc = "select" /\ (Internal \/ lpc = "idle") /\ reads < MaxReads

CaptureGoesTo(pc) ==
    /\ cpc' = pc
    /\ lpc' = IF Internal THEN lpc
              ELSE IF pc = "select" THEN "idle" ELSE "handler"

\* After the last frame of a packet, postFrame copies it to the output.
AfterPacket == IF CopyOutput THEN "write" ELSE "select"

ReadPacket ==
    /\ MayRead /\ "packet" \in Outcomes
    /\ reads' = reads + 1
    /\ heap' = heap \cup {reads + 1}
    /\ \E p \in Packets :
          /\ todo' = p
          /\ leaked' = IF p = <<>> THEN leaked \cup {reads + 1} ELSE leaked
          /\ CaptureGoesTo(IF p = <<>> THEN AfterPacket ELSE "queue")
    /\ UNCHANGED <<queue, pending, posted, loopVars>>

\* handleClosure: the request is dropped and the client, if there is one, is
\* told that there will be no more data.
HandleClosure == awaiting' = FALSE /\ closed' = (closed \/ client)

ReadFails ==
    /\ reads' = reads + 1
    /\ heap' = heap \cup {reads + 1}
    /\ leaked' = leaked \cup {reads + 1}
    /\ IF Internal THEN UNCHANGED <<awaiting, closed>> ELSE HandleClosure
    /\ UNCHANGED <<queue, todo, posted, lpc, client, frame, fFrameSize,
                   fNumTruncatedBytes, last>>

ReadNoData ==
    /\ MayRead /\ "nodata" \in Outcomes
    /\ ReadFails
    /\ pending' = TRUE
    /\ UNCHANGED cpc

ReadError ==
    /\ MayRead /\ "error" \in Outcomes
    /\ ReadFails
    /\ cpc' = IF Internal THEN "stopped" ELSE cpc
    /\ UNCHANGED pending

\* select() itself fails: the thread ends without a read.
SelectFails ==
    /\ Internal /\ cpc = "select" /\ "error" \in Outcomes
    /\ cpc' = "stopped"
    /\ UNCHANGED <<queue, pending, heap, leaked, reads, todo, posted, lpc,
                   loopVars>>

\* Fault: the queue is taken for full one frame too late.
NumDroppedLate ==
    IF Len(queue) > QueueSize THEN Len(queue) + 1 - QueueSize ELSE 0

\* queueFrame drops from the front until there is room for one more frame.
NumDropped == IF Len(queue) >= QueueSize THEN Len(queue) + 1 - QueueSize ELSE 0

Kept == SubSeq(queue, NumDropped + 1, Len(queue))

\* Fault: the frames dropped are unlinked and not deleted.
ForgottenByDrop == {}

FreedByDrop == UNION {OwnedBy(queue[i]) : i \in 1 .. NumDropped}

\* Fault: the buffer is given to the first frame of the packet.
FirstOwns == queue = <<>> \/ queue[Len(queue)].buf # reads

\* "last frame will release buffer"
LastOwns == Len(todo) = 1

NewFrame == [seq   |-> posted + 1, size  |-> Head(todo),
             buf   |-> reads,      owner |-> LastOwns]

\* Fault: push_front.
PushedInFront == <<NewFrame>> \o Kept

Pushed == Append(Kept, NewFrame)

QueueFrame ==
    /\ cpc = "queue" /\ ~LoopHoldsMutex
    /\ queue' = Pushed
    /\ heap' = heap \ FreedByDrop
    /\ posted' = posted + 1
    /\ todo' = Tail(todo)
    /\ cpc' = "trigger"
    /\ UNCHANGED <<pending, leaked, reads, lpc, loopVars>>

\* Fault: only the last frame of a packet sets the trigger.
TriggerEventOnce ==
    /\ cpc = "trigger"
    /\ pending' = (pending \/ todo = <<>>)
    /\ CaptureGoesTo(IF todo = <<>> THEN AfterPacket ELSE "queue")
    /\ UNCHANGED <<queue, heap, leaked, reads, todo, posted, loopVars>>

TriggerEvent ==
    /\ cpc = "trigger"
    /\ pending' = TRUE
    /\ CaptureGoesTo(IF todo = <<>> THEN AfterPacket ELSE "queue")
    /\ UNCHANGED <<queue, heap, leaked, reads, todo, posted, loopVars>>

\* write(m_outfd, frame, frameSize): reads the packet buffer.
WriteOutput ==
    /\ cpc = "write"
    /\ CaptureGoesTo("select")
    /\ UNCHANGED <<queue, pending, heap, leaked, reads, todo, posted, loopVars>>

-----------------------------------------------------------------------------
(* The event loop. *)

\* FramedSource::getNextFrame, then doGetNextFrame, then deliverFrame.
GetNextFrame ==
    /\ lpc = "idle" /\ ~awaiting /\ ~closed
    /\ awaiting' = TRUE /\ client' = TRUE /\ fNumTruncatedBytes' = 0
    /\ lpc' = "enter"
    /\ UNCHANGED <<queue, pending, heap, leaked, captureVars, closed, frame,
                   fFrameSize, last>>

StopGettingFrames ==
    /\ lpc = "idle" /\ client
    /\ awaiting' = FALSE /\ client' = FALSE
    /\ UNCHANGED <<queue, pending, heap, leaked, captureVars, lpc, closed,
                   frame, fFrameSize, fNumTruncatedBytes, last>>

\* The scheduler clears the trigger and then calls deliverFrameStub.
HandleEvent ==
    /\ lpc = "idle" /\ pending
    /\ pending' = FALSE
    /\ lpc' = IF awaiting THEN "enter" ELSE "idle"
    /\ UNCHANGED <<queue, heap, leaked, captureVars, loopVars>>

\* deliverFrame finds the queue empty.
DeliverNothing ==
    /\ lpc = "enter" /\ queue = <<>>
    /\ fFrameSize' = 0
    /\ lpc' = "unlock"
    /\ UNCHANGED <<queue, pending, heap, leaked, captureVars, awaiting, client,
                   closed, frame, fNumTruncatedBytes, last>>

Fits(f) == f.size <= MaxSize

Cut(f) == f.size - MaxSize

DeliverPop ==
    /\ lpc = "enter" /\ queue # <<>>
    /\ frame' = Head(queue)
    /\ queue' = Tail(queue)
    /\ IF Fits(Head(queue))
         THEN fFrameSize' = Head(queue).size /\ UNCHANGED fNumTruncatedBytes
         ELSE fFrameSize' = MaxSize /\ fNumTruncatedBytes' = Cut(Head(queue))
    /\ last' = IF Head(queue).size > 0 THEN Head(queue).seq ELSE last
    /\ lpc' = "copy"
    /\ UNCHANGED <<pending, heap, leaked, captureVars, awaiting, client, closed>>

\* Fault: deliverFrame does not ask for another turn.
NoMoreFrames == FALSE

MoreFrames == queue # <<>>

\* memcpy from the frame, delete it, ask for another turn if frames are left.
DeliverCopy ==
    /\ lpc = "copy"
    /\ heap' = heap \ OwnedBy(frame)
    /\ pending' = (pending \/ MoreFrames)
    /\ lpc' = "unlock"
    /\ UNCHANGED <<queue, leaked, captureVars, loopVars>>

DeliverUnlock ==
    /\ lpc = "unlock"
    /\ lpc' = IF fFrameSize > 0 THEN "after" ELSE "idle"
    /\ UNCHANGED <<queue, pending, heap, leaked, captureVars, loopVars>>

\* FramedSource::afterGetting: the request is answered.
AfterGetting ==
    /\ lpc = "after"
    /\ awaiting' = FALSE
    /\ lpc' = "idle"
    /\ UNCHANGED <<queue, pending, heap, leaked, captureVars, client, closed,
                   frame, fFrameSize, fNumTruncatedBytes, last>>

-----------------------------------------------------------------------------
Post    == QueueFrame \/ TriggerEvent \/ WriteOutput
Capture == ReadPacket \/ ReadNoData \/ ReadError \/ SelectFails \/ Post
Deliver == DeliverNothing \/ DeliverPop \/ DeliverCopy \/ DeliverUnlock
           \/ AfterGetting
Loop    == GetNextFrame \/ StopGettingFrames \/ HandleEvent \/ Deliver

Next == Capture \/ Loop

SafeSpec == Init /\ [][Next]_vars

\* A handler of the loop and the handling of a packet run to their end; each
\* turn of the scheduler looks at the triggers, whatever else it runs.  The
\* device and the sink owe nothing.
Fairness == WF_vars(Deliver) /\ WF_vars(Post) /\ SF_vars(HandleEvent)

Spec == SafeSpec /\ Fairness

-----------------------------------------------------------------------------
(* Properties. *)

TypeOK ==
    /\ queue \in Seq(Frame) /\ pending \in BOOLEAN
    /\ heap \subseteq 1 .. reads /\ leaked \subseteq 1 .. reads
    /\ cpc \in {"select", "queue", "trigger", "write", "stopped"}
    /\ reads \in Nat /\ todo \in Seq(Nat) /\ posted \in Nat
    /\ lpc \in {"idle", "enter", "copy", "unlock", "after", "handler"}
    /\ awaiting \in BOOLEAN /\ client \in BOOLEAN /\ closed \in BOOLEAN
    /\ frame \in Frame /\ fFrameSize \in Nat /\ fNumTruncatedBytes \in Nat
    /\ last \in Nat

\* The frames in the queue are the last ones posted, in the order they were
\* captured, and there are never more than m_queueSize of them: queueFrame and
\* deliverFrame, on two threads, lose and take frames at the front only.
QueueIsWindow ==
    /\ Len(queue) <= QueueSize
    /\ \A i \in 1 .. Len(queue) : queue[i].seq + Len(queue) = posted + i

\* No lost wakeup.  If the sink waits while a frame is queued, then somebody
\* is going to deliver it: the trigger is set, queueFrame is about to set it,
\* or the loop is inside a deliverFrame that will pop a frame or has just
\* popped one with data in it.
NoLostWakeup ==
    awaiting /\ queue # <<>> =>
        \/ pending
        \/ cpc = "trigger"
        \/ lpc \in {"enter", "copy", "after"}
        \/ lpc = "unlock" /\ fFrameSize > 0

\* No frame outlives its memory: the buffer behind every queued frame, behind
\* the frame deliverFrame is copying from, and behind the frames processFrame
\* has still to queue is allocated.
FramesHaveMemory ==
    /\ \A i \in 1 .. Len(queue) : queue[i].buf \in heap
    /\ lpc = "copy" => frame.buf \in heap
    /\ todo # <<>> => reads \in heap

\* No buffer is freed twice: a frame that owns its buffer is the last live
\* frame in it, whether its successors are queued or still to be queued.
OwnerIsLast ==
    /\ \A i, j \in 1 .. Len(queue) :
          i < j /\ queue[i].owner => queue[i].buf # queue[j].buf
    /\ \A i \in 1 .. Len(queue) :
          queue[i].owner /\ todo # <<>> => queue[i].buf # reads
    /\ lpc = "copy" /\ frame.owner =>
          /\ \A i \in 1 .. Len(queue) : frame.buf # queue[i].buf
          /\ todo # <<>> => frame.buf # reads

\* The buffers a frame in the queue, or in the hands of deliverFrame, frees.
OwnedBuffers ==
    (UNION {OwnedBy(queue[i]) : i \in 1 .. Len(queue)})
    \cup (IF lpc = "copy" THEN OwnedBy(frame) ELSE {})

\* Every buffer is freed once it is not needed: one that is allocated has its
\* owner in the queue, is being split, or was lost at one of the places that
\* drop a buffer (a read that fails, a packet without a frame).
BuffersAccounted ==
    heap \subseteq OwnedBuffers \cup leaked
                   \cup (IF todo # <<>> THEN {reads} ELSE {})

\* What the sink is told about a frame is true when it is called back: it got
\* what fits and the rest is counted as truncated, although deliverFrame never
\* clears fNumTruncatedBytes itself.
SizesReported ==
    lpc = "after" => /\ 0 < fFrameSize /\ fFrameSize <= MaxSize
                     /\ fFrameSize + fNumTruncatedBytes = frame.size

\* Memory is safe on both threads: nothing in use is freed, nothing is freed
\* twice, and nothing is forgotten (the last frame of a packet frees it).
MemorySafe == FramesHaveMemory /\ OwnerIsLast /\ BuffersAccounted

\* The queue is a window of what was captured, however pushes, drops and
\* deliveries interleave, and the sizes that reach the sink are true.
WindowTrue == TypeOK /\ QueueIsWindow /\ SizesReported

\* A sink gets every frame at most once and in the order of capture.
DeliveredInOrder == [][last' # last => last' > last]_vars

\* The answer to the request in progress is already in fTo.
Answered == lpc \in {"copy", "unlock", "after"} /\ fFrameSize > 0

\* The source implements the bounded channel that loses its oldest frames,
\* its liveness included.
Channel == INSTANCE FrameChannel WITH
               Capacity <- QueueSize,
               head     <- posted + 1 - Len(queue),
               waiting  <- awaiting /\ ~Answered

ImplementsChannel == Channel!Spec

\* The packet written to the output (README: "-O output: Copy captured frame to
\* a file or a V4L2 device") is still in memory while it is written.
OutputCopiesFrame == cpc = "write" => reads \in heap

=============================================================================
