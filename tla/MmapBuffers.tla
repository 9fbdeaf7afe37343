---------------------------- MODULE MmapBuffers ----------------------------
(***************************************************************************)
(* The memory-mapped buffers of V4l2MmapDevice.  A fixed set of buffers    *)
(* goes round between the driver and the process: VIDIOC_DQBUF takes one   *)
(* from the driver, VIDIOC_QBUF gives it back.  A read or a write does     *)
(* both in one call; a partial write takes a buffer in one call, fills it  *)
(* in others and gives it back in a last one.  start() and stop() set up   *)
(* and tear down the whole, and go on after an ioctl that fails.           *)
(* The driver may refuse any call.  It refuses a buffer it already has.    *)
(***************************************************************************)
EXTENDS Integers

CONSTANTS
    Counts,   \* how many buffers the driver may grant
    Length,   \* buf.length, the same for all buffers
    Sizes     \* bufferSize in a call of writePartial

\* m_buffer has room for that many.  The driver may grant more than start()
\* asks for, and start() does not look: CountsAssumption excludes that.
V4L2MMAP_NBBUFFER == 10

ASSUME CountsAssumption == Counts \subseteq 0 .. V4L2MMAP_NBBUFFER
ASSUME SizesAssumption  == Length \in Nat /\ Sizes \subseteq Nat

VARIABLES
    n_buffers,
    mapped,      \* the buffers that are mapped
    queued,      \* the buffers the driver has
    streaming,   \* between VIDIOC_STREAMON and VIDIOC_STREAMOFF
    ready,       \* the last start() succeeded: the device is used
    partial,     \* m_partialWriteInProgress
    index,       \* m_partialWriteBuf.index
    bytesused,   \* m_partialWriteBuf.bytesused
    lost,        \* history: buffers the driver refused to take back
    stale        \* history: the partial write in progress, if any, is not one
                 \* that was started since the last start()

driverVars  == <<queued, streaming>>
partialVars == <<partial, index, bytesused>>
vars == <<n_buffers, mapped, driverVars, ready, partialVars, lost, stale>>

Buffers(n) == 0 .. n - 1

\* No constructor sets m_partialWriteInProgress and m_partialWriteBuf: they
\* are whatever the memory holds.  The index stands for one of the buffers or
\* for none; the length is taken to be Length.
Init == /\ n_buffers = 0 /\ mapped = {} /\ queued = {}
        /\ streaming = FALSE /\ ready = FALSE
        /\ partial \in BOOLEAN /\ index \in {0, V4L2MMAP_NBBUFFER}
        /\ bytesused \in 0 .. Length
        /\ lost = {} /\ stale = partial

-----------------------------------------------------------------------------
(* start() and stop(). *)

\* VIDIOC_REQBUFS fails: start() does nothing else.
StartRefused == /\ ready' = FALSE
                /\ UNCHANGED <<n_buffers, mapped, driverVars, partialVars,
                               lost, stale>>

\* Each buffer may fail to be mapped or queued, and VIDIOC_STREAMON may fail:
\* start() goes on and remembers it in its result.  A device whose start()
\* failed in init() is deleted, and the driver refuses new buffers while the
\* old ones are mapped: start() succeeds only after stop().
Start == /\ ~streaming /\ mapped = {}
         /\ \E n \in Counts : \E M, Q \in SUBSET Buffers(n), on \in BOOLEAN :
               /\ n_buffers' = n /\ mapped' = M
               /\ queued' = Q /\ streaming' = on
               /\ ready' = (M = Buffers(n) /\ Q = Buffers(n) /\ on)
               /\ lost' = {}
         /\ UNCHANGED <<partialVars, stale>>

Unmapped == Buffers(n_buffers)

\* VIDIOC_STREAMOFF takes all buffers back from the driver, unless it fails.
Stop == /\ \E off \in BOOLEAN :
              /\ streaming' = (streaming /\ ~off)
              /\ queued' = IF off THEN {} ELSE queued
        /\ mapped' = mapped \ Unmapped
        /\ n_buffers' = 0
        /\ ready' = FALSE
        /\ stale' = partial
        /\ UNCHANGED <<partialVars, lost>>

-----------------------------------------------------------------------------
(* readInternal() and writeInternal(). *)

InUse == ready /\ n_buffers > 0

Dequeued(i) == streaming /\ i \in queued /\ i < n_buffers

\* Fault: the buffer is not given back.
NotRequeued(i, Q) == queued' = Q /\ UNCHANGED lost

\* VIDIOC_QBUF of buffer i, when the driver has Q.
Requeued(i, Q) ==
    \/ i \notin Q /\ i < n_buffers /\ queued' = Q \cup {i} /\ lost' = lost \ {i}
    \/ queued' = Q /\ lost' = IF i \in Q THEN lost ELSE lost \cup {i}

\* readInternal and writeInternal use the buffers in the same way.  A call in
\* which VIDIOC_DQBUF fails changes nothing.
ReadWriteInternal ==
    /\ InUse
    /\ \E i \in queued :
          /\ Dequeued(i)
          /\ Requeued(i, queued \ {i})
    /\ UNCHANGED <<n_buffers, mapped, streaming, ready, partialVars, stale>>

-----------------------------------------------------------------------------
(* Partial writes. *)

StartPartialWrite ==
    /\ InUse /\ ~partial
    /\ \E i \in queued :
          /\ Dequeued(i)
          /\ queued' = queued \ {i}
          /\ index' = i
    /\ bytesused' = 0 /\ partial' = TRUE /\ stale' = FALSE
    /\ UNCHANGED <<n_buffers, mapped, streaming, ready, lost>>

\* Fault: a partial write need not have been started.
AnyPartial == InUse /\ index < n_buffers

MayWritePartial == InUse /\ partial /\ index < n_buffers

Grown(size) == IF bytesused + size > Length THEN Length ELSE bytesused + size

WritePartialInternal(size) ==
    /\ MayWritePartial
    /\ bytesused' = Grown(size)
    /\ UNCHANGED <<n_buffers, mapped, driverVars, ready, partial, index, lost,
                   stale>>

EndPartialWrite ==
    /\ partial
    /\ partial' = FALSE /\ stale' = FALSE
    /\ IF n_buffers > 0 THEN Requeued(index, queued)
                        ELSE UNCHANGED <<queued, lost>>
    /\ UNCHANGED <<n_buffers, mapped, streaming, ready, index, bytesused>>

Next == \/ StartRefused \/ Start \/ Stop \/ ReadWriteInternal
        \/ StartPartialWrite \/ EndPartialWrite
        \/ \E size \in Sizes : WritePartialInternal(size)

Spec == Init /\ [][Next]_vars

-----------------------------------------------------------------------------
(* Properties. *)

TypeOK ==
    /\ n_buffers \in Nat
    /\ mapped \subseteq Nat /\ queued \subseteq Nat /\ lost \subseteq Nat
    /\ streaming \in BOOLEAN /\ ready \in BOOLEAN /\ partial \in BOOLEAN
    /\ stale \in BOOLEAN
    /\ index \in Nat /\ bytesused \in 0 .. Length

\* No buffer drops out of the rotation: while the device is used, the driver
\* has every buffer but the one of the partial write in progress and those it
\* refused to take back, through any sequence of calls, restarts included.
BuffersConserved ==
    ready => \A i \in Buffers(n_buffers) :
        i \in queued \/ i \in lost \/ (partial /\ ~stale /\ i = index)

\* The process reads and writes only buffers that are mapped and that the
\* driver does not have, unless the partial write is a stale one: the flag
\* m_partialWriteInProgress and the buffer survive stop(), and are not
\* initialised.
OwnBuffersOnly ==
    /\ MayWritePartial /\ ~stale => index \in mapped \ queued
    /\ InUse => {i \in queued : Dequeued(i)} \subseteq mapped

\* Every mapping is one of the n_buffers that stop() will unmap, whatever
\* failed in start(): no mapping outlives the device.
MappingsKnown == mapped \subseteq Buffers(n_buffers)

\* Every buffer is somewhere, through any sequence of calls and failures.
Rotation == TypeOK /\ BuffersConserved

\* No buffer is touched that is the driver's or is not mapped, and no mapping
\* is forgotten.
BuffersOwned == OwnBuffersOnly /\ MappingsKnown

=============================================================================
