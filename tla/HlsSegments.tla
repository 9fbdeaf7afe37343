---------------------------- MODULE HlsSegments ----------------------------
(***************************************************************************)
(* The HLS and MPEG-DASH side of the server: MemoryBufferSink cuts the     *)
(* transport stream into slices of m_sliceDuration seconds and keeps the   *)
(* last m_nbSlices of them, TSServerMediaSubsession gives one slice of     *)
(* them, HTTPServer lists them in a playlist and answers the requests for  *)
(* a segment.  All of it runs in the event loop, a handler at a time.      *)
(* Frames are their numbers, in the order the sink stores them; a slice is *)
(* the sequence of the frames appended to it, and its size in bytes is     *)
(* their number.                                                           *)
(***************************************************************************)
EXTENDS Integers, Sequences, FiniteSets

CONSTANTS
    SliceDuration,   \* m_sliceDuration, the option -S
    NbSlices,        \* m_nbSlices
    BufferSize,      \* m_bufferSize at first, OutPacketBuffer::maxSize
    Sizes,           \* sizes of a frame
    Start,           \* presentation time of the first frame, in seconds
    Steps,           \* what presentation times grow by from frame to frame
    UIntRange,       \* values of an unsigned int, 2 ^ 32
    Float(_),        \* an unsigned int as a float
    MaxExact,        \* the float counts every second until then, 2 ^ 24
    MaxFrames        \* bound: frames stored

ASSUME DurationAssumption == SliceDuration \in Nat \ {0} /\ NbSlices \in Nat \ {0}
ASSUME SizeAssumption     == BufferSize \in Nat /\ Sizes \subseteq Nat
ASSUME ClockAssumption    == Start \in Nat \ {0} /\ Steps \subseteq Int
ASSUME RangeAssumption    == UIntRange \in Nat \ {0} /\ MaxExact \in 0 .. UIntRange - 1
ASSUME FloatAssumption    == \A n \in 0 .. UIntRange - 1 :
                                 Float(n) \in Nat /\ (n <= MaxExact => Float(n) = n)
ASSUME BoundAssumption    == MaxFrames \in Nat

VARIABLES
    bufferSize,                     \* m_bufferSize
    refTime, now,                   \* m_refTime; time of the last frame
    stamp,                          \* presentation time of each frame stored
    outputs,                        \* m_outputBuffers: slice -> frames
    slice,                          \* m_slice of the subsession
    playlist,                       \* last playlist: segments it lists, slices then
    mpd,                            \* startNumber of the last DASH playlist, or -1
    response                        \* last segment sent: length announced, body

sinkVars == <<bufferSize, refTime, now, stamp, outputs>>
vars == <<sinkVars, slice, playlist, mpd, response>>

\* Fault: slices are numbered with a signed integer.
Signed(i) == i

Unsigned(i) == i % UIntRange

Slices == 0 .. UIntRange - 1

NotFound == [length |-> 0, body |-> <<>>]

Init == /\ bufferSize = BufferSize /\ refTime = 0 /\ now = Start
        /\ stamp = <<>> /\ outputs = <<>>
        /\ slice = 0
        /\ playlist = [segments |-> <<>>, window |-> <<>>]
        /\ mpd = -1 /\ response = NotFound

MaxOf(S) == CHOOSE s \in S : \A t \in S : t <= s

MinOf(S) == CHOOSE s \in S : \A t \in S : s <= t

-----------------------------------------------------------------------------
(* MemoryBufferSink. *)

\* Division of longs truncates toward zero.
Quotient(a, b) == IF a >= 0 THEN a \div b ELSE -((-a) \div b)

\* Fault: every frame sets the reference again.
RefOfEach(t) == t

Ref(t) == IF refTime = 0 THEN t ELSE refTime

SliceOf(t) == Unsigned(Quotient(t - Ref(t), SliceDuration))

Appended(s, n) ==
    [t \in DOMAIN outputs \cup {s} |->
        IF t # s THEN outputs[t]
        ELSE IF s \in DOMAIN outputs THEN Append(outputs[s], n) ELSE <<n>>]

\* The slices left when the oldest are erased until m_nbSlices are left.
Newest(f) == {s \in DOMAIN f : Cardinality({t \in DOMAIN f : t > s}) < NbSlices}

Restricted(f, S) == [s \in S |-> f[s]]

Grown(size) == bufferSize + (size - bufferSize)

TruncatedFrame(size) ==
    /\ size > bufferSize
    /\ bufferSize' = Grown(size)
    /\ UNCHANGED <<refTime, now, stamp, outputs, slice, playlist, mpd, response>>

StoreFrame(size, step) ==
    LET t == IF stamp = <<>> THEN now ELSE now + step
        n == Len(stamp) + 1
        f == Appended(SliceOf(t), n)
    IN  /\ size <= bufferSize /\ n <= MaxFrames /\ t > 0
        /\ refTime' = Ref(t)
        /\ now' = t /\ stamp' = Append(stamp, t)
        /\ outputs' = Restricted(f, Newest(f))
        /\ UNCHANGED <<bufferSize, slice, playlist, mpd, response>>

FirstTime == IF DOMAIN outputs = {} THEN 0
             ELSE Unsigned(MinOf(DOMAIN outputs) * SliceDuration)

\* Fault: the difference is taken the wrong way round.
DurationReversed ==
    IF DOMAIN outputs = {} THEN 0
    ELSE Unsigned((MinOf(DOMAIN outputs) - MaxOf(DOMAIN outputs)) * SliceDuration)

\* Fault: the newest slice is counted as well.
DurationWithNewest ==
    IF DOMAIN outputs = {} THEN 0
    ELSE Unsigned((MaxOf(DOMAIN outputs) - MinOf(DOMAIN outputs) + 1) * SliceDuration)

Duration ==
    IF DOMAIN outputs = {} THEN 0
    ELSE Unsigned((MaxOf(DOMAIN outputs) - MinOf(DOMAIN outputs)) * SliceDuration)

GetBuffer(s) == IF s \in DOMAIN outputs THEN outputs[s] ELSE <<>>

-----------------------------------------------------------------------------
(* TSServerMediaSubsession. *)

\* Both give whole seconds as a float.
CurrentNPT == Float(FirstTime)

DurationNPT == Float(Duration)

SeekSlice(seekNPT) == seekNPT \div SliceDuration

NumBytes(seekNPT) == Len(GetBuffer(SeekSlice(seekNPT)))

\* An RTSP client that plays the stream from somewhere seeks it too.
PlaySeek(seekNPT) == /\ slice' = SeekSlice(seekNPT)
                     /\ UNCHANGED <<sinkVars, playlist, mpd, response>>

-----------------------------------------------------------------------------
(* HTTPServer. *)

\* An unsigned int compared with a float becomes a float itself.
Seconds(k) == Float(Unsigned(k * SliceDuration))

Listed(k) == Seconds(k) < DurationNPT

Segment(k) == Unsigned(CurrentNPT + k * SliceDuration)

\* The loop ends with the first slice that is not listed: at the latest with
\* the newest one, whose seconds are the duration.
SendM3u8PlayList ==
    LET nb == MinOf({k \in Slices : ~Listed(k)})
    IN  /\ DurationNPT > 0
        /\ playlist' = [segments |-> [k \in 1 .. nb |-> Segment(k - 1)],
                        window |-> outputs]
        /\ UNCHANGED <<sinkVars, slice, mpd, response>>

SendMpdPlayList == /\ DurationNPT > 0
                   /\ mpd' = CurrentNPT
                   /\ UNCHANGED <<sinkVars, slice, playlist, response>>

SendSegment(offset) ==
    /\ slice' = SeekSlice(offset)
    /\ response' = IF NumBytes(offset) = 0 THEN NotFound
                   ELSE [length |-> NumBytes(offset), body |-> GetBuffer(slice')]
    /\ UNCHANGED <<sinkVars, playlist, mpd>>

\* The segments worth asking for: any that a playlist could have listed.
Offsets == {k * SliceDuration : k \in 0 .. NbSlices}

Next == \/ \E size \in Sizes : TruncatedFrame(size)
        \/ \E size \in Sizes, step \in Steps : StoreFrame(size, step)
        \/ SendM3u8PlayList
        \/ SendMpdPlayList
        \/ \E offset \in Offsets : PlaySeek(offset) \/ SendSegment(offset)

Spec == Init /\ [][Next]_vars

-----------------------------------------------------------------------------
(* Properties. *)

TypeOK ==
    /\ bufferSize \in Nat
    /\ refTime \in Nat /\ now \in Nat /\ stamp \in Seq(Nat)
    /\ DOMAIN outputs \subseteq Slices
    /\ Cardinality(DOMAIN outputs) <= NbSlices
    /\ \A s \in DOMAIN outputs : outputs[s] \in Seq(1 .. Len(stamp))
    /\ slice \in Nat
    /\ playlist.segments \in Seq(Slices)
    /\ mpd \in Nat \cup {-1}
    /\ response.length \in Nat /\ response.body \in Seq(1 .. Len(stamp))

\* The clock has never gone back.
NeverBack == \A n \in 2 .. Len(stamp) : stamp[n - 1] <= stamp[n]

\* A frame fell in every slice.
NoGap == \A n \in 2 .. Len(stamp) : stamp[n] <= stamp[n - 1] + SliceDuration

\* The stream has not run for longer than an unsigned int counts seconds.
NotWrapped == now - refTime < UIntRange

\* While the clock does not go back, a slice that is kept holds all the frames
\* of its seconds, in order, and nothing else.
TimesOf(s) == {n \in 1 .. Len(stamp) :
                  (stamp[n] - refTime) \div SliceDuration = s}

SliceIsTimeRange ==
    NeverBack /\ NotWrapped => \A s \in DOMAIN outputs :
        /\ {outputs[s][i] : i \in 1 .. Len(outputs[s])} = TimesOf(s)
        /\ \A i, j \in 1 .. Len(outputs[s]) :
              i < j => outputs[s][i] < outputs[s][j]

\* The playlist was written while a float counted every second of the stream:
\* later, rounding may list a slice for another.
Counted == MaxOf(DOMAIN playlist.window) * SliceDuration <= MaxExact

\* A slice that a playlist lists is complete: while it is kept, nothing more is
\* appended to it, if the clock does not go back.
ListedSegmentsFinal ==
    NeverBack /\ NotWrapped => \A k \in 1 .. Len(playlist.segments) :
        LET s == SeekSlice(playlist.segments[k])
        IN  Counted /\ s \in DOMAIN outputs /\ s \in DOMAIN playlist.window
                => outputs[s] = playlist.window[s]

\* With a frame in every slice, the k-th segment of a playlist can be fetched
\* until k more slices have begun.
ListedSegmentsServed ==
    NeverBack /\ NoGap /\ NotWrapped => \A k \in 1 .. Len(playlist.segments) :
        Counted => \/ SeekSlice(playlist.segments[k]) \in DOMAIN outputs
                   \/ MaxOf(DOMAIN outputs) >= MaxOf(DOMAIN playlist.window) + k

\* The Content-Length of a segment is the length of the body that follows,
\* whoever else seeks the stream the clients share.
LengthIsTrue == response.length = Len(response.body)

\* A playlist is no longer than the stream, however the float rounds, and lists
\* fewer segments than there are slices kept if a frame fell in every one.
\* Only a clock that goes back, or a count of seconds that wraps, makes a slice
\* number of the far end of an unsigned int and a playlist of as many lines.
PlaylistBounded ==
    NeverBack /\ NotWrapped =>
        /\ Len(playlist.segments) * SliceDuration <= now - refTime
        /\ NoGap => Len(playlist.segments) < NbSlices

\* A slice is the frames of its seconds, and what is sent of it has the length
\* announced.
SlicesTrue == TypeOK /\ SliceIsTimeRange /\ LengthIsTrue

\* A playlist promises no more than the server can keep: what it lists is
\* complete, and is there for as long as its place in the list says.
ListedSegments == ListedSegmentsFinal /\ ListedSegmentsServed

=============================================================================
