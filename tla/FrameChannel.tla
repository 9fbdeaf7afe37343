--------------------------- MODULE FrameChannel ---------------------------
(***************************************************************************)
(* What a V4L2DeviceSource promises to the sink that reads from it: a      *)
(* bounded channel that loses its oldest frames.  Frames are numbered in   *)
(* the order they are posted.  The channel holds the frames head .. posted *)
(* and nothing else, so the whole state of the queue is two counters: a    *)
(* frame is lost only when Capacity newer frames have been posted, frames  *)
(* are never reordered or delivered twice, and a sink that waits while the *)
(* channel holds a frame is eventually served.                             *)
(***************************************************************************)
EXTENDS Naturals

CONSTANT Capacity      \* the most frames the channel holds, at least one

VARIABLES
    posted,     \* number of frames posted so far
    head,       \* the oldest frame that was neither taken nor lost
    waiting,    \* the sink has asked for a frame and has not got it
    last        \* the last frame given to the sink, 0 at the start

vars == <<posted, head, waiting, last>>

Init == posted = 0 /\ head = 1 /\ waiting = FALSE /\ last = 0

\* The channel is full when it holds Capacity frames; posting then loses one.
Post == /\ posted' = posted + 1
        /\ head' = IF posted + 1 - head = Capacity THEN head + 1 ELSE head
        /\ UNCHANGED <<waiting, last>>

Ask == ~waiting /\ waiting' = TRUE /\ UNCHANGED <<posted, head, last>>

\* The sink goes away, or is told that the source is closed.
Withdraw == waiting /\ waiting' = FALSE /\ UNCHANGED <<posted, head, last>>

Take == /\ waiting /\ head <= posted
        /\ last' = head /\ head' = head + 1 /\ waiting' = FALSE
        /\ UNCHANGED posted

\* A frame without data is consumed without an answer to the sink.
Skip == /\ waiting /\ head <= posted
        /\ head' = head + 1
        /\ UNCHANGED <<posted, waiting, last>>

Next == Post \/ Ask \/ Withdraw \/ Take \/ Skip

SafeSpec == Init /\ [][Next]_vars

Spec == SafeSpec /\ WF_vars(Take \/ Skip)

=============================================================================
