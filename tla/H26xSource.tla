---------------------------- MODULE H26xSource ----------------------------
(***************************************************************************)
(* H264_V4L2DeviceSource and H265_V4L2DeviceSource: how a packet of the    *)
(* encoder is split into frames, and how the parameter sets (VPS, SPS,     *)
(* PPS) that go by in the stream are kept and repeated before each IDR.    *)
(*                                                                         *)
(* A packet is a sequence of NAL units, each behind a long marker          *)
(* (0,0,0,1) or a short one (0,0,1).  What matters of a unit is its marker,*)
(* its type and which contents it has.  A frame is a part of the packet; a *)
(* configuration frame points into the string that keeps a parameter set,  *)
(* and its bytes are read when the event loop delivers it.                 *)
(***************************************************************************)
EXTENDS Naturals, Sequences, Functions

CONSTANTS
    Codecs,        \* the parameter sets of a codec, in the order they are sent
    Packets,       \* the packets the device may give
    RepeatConfig,  \* m_repeatConfig, off with option -c
    QueueSize,     \* m_queueSize
    MaxPackets     \* bound: number of packets in a behaviour

VARIABLES
    params,   \* the parameter sets of the codec in use
    config,   \* m_vps, m_sps, m_pps: contents, and where the string keeps them
    packets,  \* number of packets read
    packet,   \* history: the last packet read
    start,    \* history: number of frames split from the packets before it
    stream,   \* every frame split so far, in order
    posted,   \* how many of them were queued
    taken,    \* how many of those were dropped or delivered
    sent      \* history: what the last frame delivered should hold, and held

splitVars == <<params, config, packets, packet, start, stream, posted, taken, sent>>

Types == {"vps", "sps", "pps", "idr", "slice"}

Unit == [type : Types, long : BOOLEAN, data : Nat]

Frame == [param : Types \cup {"none"}, mem : Nat, content : Seq(Unit)]

\* A codec has no other parameter sets, and the queue can hold a frame.
ASSUME SplitAssumption ==
    /\ Packets \subseteq Seq(Unit)
    /\ Codecs \subseteq Seq({"vps", "sps", "pps"})
    /\ RepeatConfig \in BOOLEAN
    /\ QueueSize \in Nat \ {0} /\ MaxPackets \in Nat

\* The bytes of memory that was given back.
Freed == <<"freed">>

SplitInit ==
        /\ params \in Codecs
        /\ config = [p \in Range(params) |-> [content |-> <<>>, mem |-> 0]]
        /\ packets = 0 /\ packet = <<>> /\ start = 0
        /\ stream = <<>> /\ posted = 0 /\ taken = 0
        /\ sent = [due |-> <<>>, got |-> <<>>]

-----------------------------------------------------------------------------
(* extractFrame: where the frame that is looked for from unit i starts, and  *)
(* where the frame that starts at unit i ends.  Long markers come first.     *)

FirstOf(S, none) ==
    IF S = {} THEN none ELSE CHOOSE k \in S : \A l \in S : k <= l

LongFrom(pk, i) == {k \in i .. Len(pk) : pk[k].long}

StartFrame(pk, i) == FirstOf(LongFrom(pk, i), i)

\* Fault: the first marker of either length ends the frame.
EndAtAnyMarker(pk, i) == FirstOf((i + 1) .. Len(pk), Len(pk) + 1)

\* Without a long marker ahead, a short one ends the frame.
EndFrame(pk, i) == FirstOf(LongFrom(pk, i + 1), i + 1)

\* The loop of splitFrames: where to look for the next frame, and those found.
Frames(pk) ==
    LET loop[n \in 0 .. Len(pk)] ==
            IF n = 0 THEN [at |-> 1, found |-> <<>>]
            ELSE LET l == loop[n - 1]
                     s == StartFrame(pk, l.at)
                     e == EndFrame(pk, s)
                 IN  IF l.at > Len(pk) THEN l
                     ELSE [at |-> e, found |-> Append(l.found, SubSeq(pk, s, e - 1))]
    IN  loop[Len(pk)].found

-----------------------------------------------------------------------------
(* splitFrames. *)

ConfigKnown(cfg) == \A p \in DOMAIN cfg : cfg[p].content # <<>>

ConfigFrames(cfg) ==
    [i \in 1 .. Len(params) |->
        [param   |-> params[i],
         mem     |-> cfg[params[i]].mem,
         content |-> cfg[params[i]].content]]

\* m_sps.assign(buffer, size): contents that need more room move the string.
Assign(cfg, frame, moving) ==
    LET p == frame[1].type
    IN  IF p \notin DOMAIN cfg THEN cfg
        ELSE [cfg EXCEPT ![p] =
                [content |-> frame,
                 mem     |-> IF frame # @.content /\ p \in moving
                             THEN @.mem + 1 ELSE @.mem]]

Repeated(cfg, frame) ==
    IF frame[1].type = "idr" /\ RepeatConfig /\ ConfigKnown(cfg)
    THEN ConfigFrames(cfg) ELSE <<>>

PacketFrame(frame) == <<[param |-> "none", mem |-> 0, content |-> frame]>>

\* Fault: the configuration follows the IDR.
ListedBefore(cfg, frame) == PacketFrame(frame) \o Repeated(cfg, frame)

Listed(cfg, frame) == Repeated(cfg, frame) \o PacketFrame(frame)

Split(pk, moving) ==
    LET fs == Frames(pk)
        loop[n \in 0 .. Len(fs)] ==
            IF n = 0 THEN [config |-> config, list |-> <<>>]
            ELSE LET l   == loop[n - 1]
                     cfg == Assign(l.config, fs[n], moving)
                 IN  [config |-> cfg, list |-> l.list \o Listed(cfg, fs[n])]
    IN  loop[Len(fs)]

ReadPacket ==
    /\ posted = Len(stream) /\ packets < MaxPackets
    /\ packets' = packets + 1
    /\ \E pk \in Packets, moving \in SUBSET Range(params) :
          /\ packet' = pk
          /\ config' = Split(pk, moving).config
          /\ stream' = stream \o Split(pk, moving).list
    /\ start' = Len(stream)
    /\ UNCHANGED <<params, posted, taken, sent>>

\* A full queue drops its oldest frame.
Dropped == IF posted - taken >= QueueSize
           THEN posted + 1 - QueueSize ELSE taken

QueueFrame ==
    /\ posted < Len(stream)
    /\ posted' = posted + 1
    /\ taken' = Dropped
    /\ UNCHANGED <<params, config, packets, packet, start, stream, sent>>

BytesOf(f) == IF f.param = "none" THEN f.content
              ELSE IF f.mem = config[f.param].mem THEN config[f.param].content
              ELSE Freed

DeliverFrame ==
    /\ taken < posted
    /\ taken' = taken + 1
    /\ sent' = [due |-> stream[taken + 1].content,
                got |-> BytesOf(stream[taken + 1])]
    /\ UNCHANGED <<params, config, packets, packet, start, stream, posted>>

SplitNext == ReadPacket \/ QueueFrame \/ DeliverFrame

SplitSpec == SplitInit /\ [][SplitNext]_splitVars

-----------------------------------------------------------------------------
(* Properties. *)

SplitTypeOK ==
    /\ params \in Codecs /\ DOMAIN config = Range(params)
    /\ \A p \in DOMAIN config :
          config[p].content \in Seq(Unit) /\ config[p].mem \in Nat
    /\ packet \in Seq(Unit) /\ stream \in Seq(Frame)
    /\ start \in 0 .. Len(stream) /\ posted \in 0 .. Len(stream)
    /\ taken \in 0 .. posted /\ posted - taken <= QueueSize

\* A frame that was split from a packet, not a repeated configuration.
Own(f) == f.param = "none"

\* The units of the own frames among fs, one after the other.
Joined(fs) ==
    LET upto[n \in 0 .. Len(fs)] ==
            IF n = 0 THEN <<>>
            ELSE upto[n - 1] \o (IF Own(fs[n]) THEN fs[n].content ELSE <<>>)
    IN  upto[Len(fs)]

\* Nothing behind the first long marker of a packet is lost or sent twice,
\* however markers of both lengths are mixed, and each long marker starts a
\* frame: the loop over extractFrame resumes exactly where a frame ended.
PacketSplit ==
    /\ Joined(SubSeq(stream, start + 1, Len(stream))) =
          SubSeq(packet, StartFrame(packet, 1), Len(packet))
    /\ \A i \in start + 1 .. Len(stream) : Own(stream[i]) =>
          /\ stream[i].content # <<>>
          /\ \A k \in 2 .. Len(stream[i].content) : ~stream[i].content[k].long

\* Every unit is split once, and the queue takes what its size allows.
UnitsSplit == SplitTypeOK /\ PacketSplit

\* The last frame of type p in fs before frame k, if there is one.
LastBefore(fs, p, k) ==
    {i \in 1 .. k - 1 :
        /\ Own(fs[i]) /\ fs[i].content[1].type = p
        /\ \A j \in i + 1 .. k - 1 : ~(Own(fs[j]) /\ fs[j].content[1].type = p)}

Idr(f) == Own(f) /\ f.content[1].type = "idr"

\* Frame k of fs, if it is an IDR, has the configuration before it.
Configured(fs, k) ==
    LET n == Len(params)
    IN  Idr(fs[k]) /\ (\A p \in Range(params) : LastBefore(fs, p, k) # {}) /\ RepeatConfig =>
          k > n /\ \A i \in 1 .. n :
              LET f == fs[k - n - 1 + i]
              IN  /\ f.param = params[i]
                  /\ \A l \in LastBefore(fs, params[i], k) : f.content = fs[l].content

\* Frame k of fs, if it is a configuration, is one before an IDR.
BeforeIdr(fs, k) ==
    Own(fs[k]) \/ \E l \in k + 1 .. Len(fs) : l <= k + Len(params) /\ Idr(fs[l])

\* Once every parameter set has gone by, in whatever packets, each IDR is
\* preceded in the stream by all of them, in the order of the codec and with
\* the contents they had last; and they are repeated nowhere else.
IdrFollowsConfig == \A k \in 1 .. Len(stream) : Configured(stream, k) /\ BeforeIdr(stream, k)

=============================================================================
