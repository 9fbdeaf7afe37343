-------------------------- MODULE MCDeviceSource --------------------------
(***************************************************************************)
(* Small instances of DeviceSource for TLC, in both threading modes: with  *)
(* a capture thread, and with the capture code as a read handler of the    *)
(* event loop (-s), which also closes the source.  A frame of size 1 or 2  *)
(* fits the sink (MaxSize is 2), one of size 3 does not, and one of size 0 *)
(* is consumed without an answer.                                          *)
(***************************************************************************)
EXTENDS DeviceSource

\* One or two frames, one of them perhaps without data or too large.
MCPackets == {<<>>, <<1>>, <<3>>, <<0, 2>>, <<2, 0>>}

\* Packets with more frames than a queue of two holds.
MCLongPackets == {<<>>, <<3>>, <<0, 2>>, <<1, 0, 2>>}

VARIABLE mode

Handler == INSTANCE DeviceSource WITH Internal <- FALSE, Packets <- MCLongPackets

Either(thread, handler) ==
    \/ mode = "thread" /\ thread
    \/ mode = "handler" /\ handler

MCInit == Init /\ mode \in {"thread", "handler"}
MCNext == Either(Next, Handler!Next) /\ UNCHANGED mode

MCSpec ==
    /\ MCInit /\ [][MCNext]_<<vars, mode>>
    /\ WF_vars(Either(Deliver, Handler!Deliver))
    /\ WF_vars(Either(Post, Handler!Post))
    /\ SF_vars(HandleEvent)

\* With the capture code on the event loop, no delivery comes between the
\* reading of a packet and the copy of postFrame: the packet written to the
\* output (README.md:49, "-O output: Copy captured frame to a file or a V4L2
\* device") is in memory.
HandlerCopies == mode = "handler" => OutputCopiesFrame

=============================================================================
