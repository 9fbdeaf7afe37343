------------------------------- MODULE TsDemuxer -------------------------------
(***************************************************************************)
(* The demuxer of the player for MPEG transport streams (hls.js,           *)
(* demux/tsdemuxer.js and demux/adts.js), one fragment at a time.          *)
(*                                                                         *)
(* Its state is a record d that outlives the fragment: what the last PAT   *)
(* and PMT said, the PES packet each track is in the middle of, the access *)
(* unit and the start code that are not finished, the bytes of an audio    *)
(* frame whose end is in the next PES packet.  The remuxer empties the     *)
(* samples.  A TS packet is [pid, stt, hdr, data], with the PES header in  *)
(* one piece; PAT and PMT are packets without data.                        *)
(***************************************************************************)
EXTENDS Integers, Sequences, FiniteSets, SequencesExt

CONSTANTS
  Wrap,         \* time stamps count modulo Wrap: 2^33 in the code
  FrameTicks    \* what an audio frame lasts, in ticks of 1/90000 s

ASSUME ClockAssumption == Wrap \in Nat /\ FrameTicks \in Nat \ {0} /\ FrameTicks < Wrap

Tracks == {"audio", "video"}
NaN == -1000000                \* undefined, and NaN
Abs(n) == IF n < 0 THEN -n ELSE n
Least(S) == CHOOSE n \in S : \A m \in S : n <= m

(* A PES packet: time stamps, and the length of its payload, or 0.         *)
Header(pts, dts, len) == [pts |-> pts, dts |-> dts, len |-> len]
NoPes == [hdr |-> Header(0, 0, -1), data |-> <<>>]

(* NAL units: the type is in five bits of the first byte.                  *)
NDR == 1
IDR == 5
SEI == 6
SPS == 7
PPS == 8
AUD == 9
UnitType(byte) == byte % 32
Unit(type, data, state) == [type |-> type, data |-> data, state |-> state]
AvcSample(key, h) ==
  [key |-> key, frame |-> FALSE, pts |-> h.pts, dts |-> h.dts, units |-> <<>>]
NoSample == AvcSample(FALSE, Header(NaN, NaN, 0))

Fresh ==
  [parsed |-> FALSE, pmt |-> FALSE, ids |-> {}, pes |-> [t \in Tracks |-> NoPes],
   samples |-> <<>>, sample |-> NoSample, nalu |-> 0, aud |-> FALSE,
   sps |-> <<>>, pps |-> <<>>, dropped |-> 0, text |-> <<>>,
   frames |-> <<>>, over |-> <<>>, lastPts |-> NaN, rate |-> FALSE,
   scale |-> [t \in Tracks |-> FALSE], errors |-> <<>>]
-----------------------------------------------------------------------------
(* Frames that follow the key frame of an earlier one are dropped.         *)
KeyFramesOnly(d, contiguous) ==
  CASE d.sample.units = <<>> \/ ~d.sample.frame -> d
    [] d.sample.key -> [d EXCEPT !.samples = Append(@, d.sample)]
    [] OTHER -> [d EXCEPT !.dropped = @ + 1]

(* pushAccesUnit: without a key frame at the start only what follows one   *)
(* is kept.                                                                *)
PushAccessUnit(d, contiguous) ==
  LET s == d.sample
      kept == s.key \/ (d.sps # <<>> /\ (d.samples # <<>> \/ contiguous))
  IN CASE s.units = <<>> \/ ~s.frame -> d
       [] kept -> [d EXCEPT !.samples = Append(@, s)]
       [] OTHER -> [d EXCEPT !.dropped = @ + 1]

(* The last unit there is, in the access unit under way or the one before, *)
(* goes on with these bytes; the zeros of a start code that was cut are    *)
(* taken off it.                                                           *)
OnLast(s, Op(_)) == [s EXCEPT ![Len(s)] = Op(@)]
OnLastUnit(d, zeros, bytes) ==
  LET extend(u) == [u EXCEPT !.data = (IF u.state # 0 THEN SubSeq(@, 1, Len(@) - zeros) ELSE @)
                                      \o bytes]
  IN CASE d.sample # NoSample /\ d.sample.units # <<>> ->
            [d EXCEPT !.sample.units = OnLast(@, extend)]
       [] d.samples # <<>> ->
            [d EXCEPT !.samples = OnLast(@, LAMBDA s : [s EXCEPT !.units = OnLast(@, extend)])]
       [] OTHER -> d

(* The zeros of a start code that began in the packet before stay there.   *)
KeepZeros(n, a) ==
  LET end == n.i - n.state - 1
      m == IF n.start >= 0
           THEN [n EXCEPT !.units = Append(@, Unit(n.type, SubSeq(a, n.start + 1, end), 0))]
           ELSE [n EXCEPT !.d = OnLastUnit(@, 0, SubSeq(a, 1, end))]
  IN IF n.i < Len(a)
     THEN [m EXCEPT !.start = n.i, !.type = UnitType(a[n.i + 1]), !.state = 0]
     ELSE [m EXCEPT !.state = -1]

(* A start code ends at byte n.i.  The first of a PES packet may have      *)
(* begun in the one before, whose last unit then has some of its zeros;    *)
(* what comes before it belongs to that unit.                              *)
StartCode(n, a) ==
  LET end == n.i - n.state - 1
      zeros == IF n.was # 0 /\ n.i <= 4 - n.was THEN n.was ELSE 0
      m == IF n.start >= 0
           THEN [n EXCEPT !.units = Append(@, Unit(n.type, SubSeq(a, n.start + 1, end), 0))]
           ELSE [n EXCEPT !.d = OnLastUnit(@, zeros, SubSeq(a, 1, end))]
  IN IF n.i < Len(a)
     THEN [m EXCEPT !.start = n.i, !.type = UnitType(a[n.i + 1]), !.state = 0]
     ELSE [m EXCEPT !.state = -1]

(* The automaton over the bytes of a PES packet; state counts the zeros.   *)
RECURSIVE NalUnits(_, _)
NalUnits(n, a) ==
  IF n.i = Len(a) THEN n
  ELSE LET v == a[n.i + 1]
           m == [n EXCEPT !.i = @ + 1]
       IN NalUnits(CASE n.state >= 2 /\ v = 1 -> StartCode(m, a)
                     [] v = 0 -> [m EXCEPT !.state = IF @ >= 2 THEN 3 ELSE @ + 1]
                     [] OTHER -> [m EXCEPT !.state = 0], a)

(* The units it leaves, the last one as far as it goes; a packet without a *)
(* start code goes on the last unit there is.                              *)
UnitsFound(n, a) ==
  LET units == IF n.start >= 0 /\ n.state >= 0
               THEN Append(n.units, Unit(n.type, SubSeq(a, n.start + 1, Len(a)), n.state))
               ELSE n.units
      d == IF units # <<>> THEN n.d ELSE OnLastUnit(n.d, 0, a)
  IN [d |-> [d EXCEPT !.nalu = n.state], units |-> units]

ParseAvcNalu(d, a) ==
  LET begun == d.nalu = -1        \* a start code was the end of the last PES
  IN UnitsFound(
       NalUnits([d |-> d, was |-> d.nalu, units |-> <<>>,
                 i |-> IF begun THEN 1 ELSE 0,
                 start |-> IF begun THEN 0 ELSE -1,
                 type |-> IF begun THEN UnitType(a[1]) ELSE 0,
                 state |-> IF begun THEN 0 ELSE d.nalu], a), a)
-----------------------------------------------------------------------------
(* Captions are kept nearly in order: before the last one that is later.   *)
InsertInOrder(s, c) ==
  IF s # <<>> /\ c.pts < Last(s).pts THEN InsertAt(s, Len(s), c) ELSE Append(s, c)

Slice(d, h, key) ==
  LET s == IF d.sample = NoSample THEN AvcSample(TRUE, h) ELSE d.sample
  IN [d EXCEPT !.sample = [s EXCEPT !.frame = TRUE, !.key = @ \/ key]]

(* One unit of a PES packet.  Delimiters, fillers and unknown units are    *)
(* not passed on, and nothing is while no access unit has begun.  An SEI   *)
(* unit here is its type, and a caption when it has one; the only intra    *)
(* slices are IDR slices.                                                  *)
TakeUnit(d, u, h, contiguous) ==
  LET put(e) == IF e.sample = NoSample THEN e
                ELSE [e EXCEPT !.sample.units = Append(@, u)]
      caption == IF Len(u.data) = 2 THEN <<[pts |-> h.pts, cc |-> u.data[2]]>> ELSE <<>>
  IN CASE u.type \in {NDR, IDR} -> put(Slice(d, h, u.type = IDR))
       [] u.type = SEI ->
            put([d EXCEPT !.text = IF caption = <<>> THEN @ ELSE InsertInOrder(@, caption[1])])
       [] u.type = SPS -> put([d EXCEPT !.sps = IF @ = <<>> THEN u.data ELSE @])
       [] u.type = PPS -> put([d EXCEPT !.pps = IF @ = <<>> THEN u.data ELSE @])
       [] u.type = AUD ->
            [PushAccessUnit(d, contiguous) EXCEPT !.aud = TRUE, !.sample = AvcSample(FALSE, h)]
       [] OTHER -> d

(* Without delimiters every PES packet with a unit begins an access unit.  *)
TakeUnits(d, units, h, contiguous) ==
  FoldLeft(LAMBDA e, u : TakeUnit(e, u, h, contiguous),
           IF d.sample # NoSample /\ units # <<>> /\ ~d.aud
           THEN [PushAccessUnit(d, contiguous) EXCEPT !.sample = AvcSample(FALSE, h)] ELSE d,
           units)
EndUnit(d, contiguous) ==
  IF d.sample # NoSample THEN [PushAccessUnit(d, contiguous) EXCEPT !.sample = NoSample] ELSE d

ParseAvcPes(d, pes, last, contiguous) ==
  LET taken(p) == TakeUnits(p.d, p.units, pes.hdr, contiguous)
  IN IF last THEN EndUnit(taken(ParseAvcNalu(d, pes.data)), contiguous)
     ELSE taken(ParseAvcNalu(d, pes.data))
-----------------------------------------------------------------------------
(* ADTS.  A frame is <<Sync, Id, its length, payload...>>: a header is     *)
(* recognised by two bytes and read with three (2, and 6 of 7, in the      *)
(* code).                                                                  *)
Sync == 255
Id == 240
HeaderLength == 3
IsHeader(a, off) == off + 1 < Len(a) /\ a[off + 1] = Sync /\ a[off + 2] = Id

(* The frames from off on, each stamped one duration after the one before; *)
(* it stops at the first one that is not whole.                            *)
RECURSIVE AacFrames(_, _, _)
AacFrames(f, a, pts) ==
  LET len == a[f.off + 3]
      whole == len > HeaderLength /\ f.off + len <= Len(a)
  IN CASE f.off >= Len(a) -> f
       [] ~(IsHeader(a, f.off) /\ f.off + 2 < Len(a)) ->
            AacFrames([f EXCEPT !.off = @ + 1], a, pts)
       [] ~whole -> f
       [] OTHER ->
            LET stamp == pts + Len(f.frames) * FrameTicks
                unit == SubSeq(a, f.off + HeaderLength + 1, f.off + len)
            IN AacFrames([f EXCEPT !.off = @ + len, !.stamp = stamp,
                                   !.frames = Append(@, [pts |-> stamp, unit |-> unit])], a, pts)

(* The bytes left over from the last PES packet come first, and then the   *)
(* stamps go on from its last frame's.                                     *)
ParseAacPes(d, pes) ==
  LET a == d.over \o pes.data
      skip == Least({o \in 0..Len(a) - 2 : IsHeader(a, o)} \cup {Len(a) - 1})
      lost == skip > 0 /\ skip >= Len(a) - 1
      next == d.lastPts + FrameTicks
      joined == d.over # <<>> /\ d.lastPts \notin {NaN, 0} /\ Abs(next - pes.hdr.pts) > 1
      f == AacFrames([off |-> skip, frames |-> <<>>, stamp |-> NaN], a,
                     IF joined THEN next ELSE pes.hdr.pts)
      d1 == IF skip > 0 THEN [d EXCEPT !.errors = Append(@, IF lost THEN "fatal" ELSE "skipped")]
            ELSE d
  IN IF lost THEN d1
     ELSE [d1 EXCEPT !.rate = TRUE, !.frames = @ \o f.frames, !.lastPts = f.stamp,
                     !.over = SubSeq(a, f.off + 1, Len(a))]
-----------------------------------------------------------------------------
(* parsePES: nothing while there are fewer bytes than the header promised. *)
WholePes(q) == q.data # <<>> /\ q.hdr.len <= Len(q.data)
ParsePes(d, t, last, contiguous) ==
  CASE ~WholePes(d.pes[t]) -> d
    [] t = "video" -> ParseAvcPes(d, d.pes[t], last, contiguous)
    [] OTHER -> ParseAacPes(d, d.pes[t])

(* A packet of a track: one that starts a PES packet ends the one before,  *)
(* whether that one was whole or not.                                      *)
Collect(d, k) ==
  IF d.pes[k.pid] = NoPes THEN d ELSE [d EXCEPT !.pes[k.pid].data = @ \o k.data]
TrackPacket(d, k, contiguous) ==
  IF k.stt
  THEN Collect([ParsePes(d, k.pid, FALSE, contiguous)
                  EXCEPT !.pes[k.pid] = [NoPes EXCEPT !.hdr = k.hdr]], k)
  ELSE Collect(d, k)

(* The packets of a fragment.  Packets that come before the first PMT make *)
(* it start over; known is what the last PMT of this scan listed.          *)
RECURSIVE Scan(_, _, _, _)
Scan(s, packets, i, contiguous) ==
  IF i > Len(packets) THEN s.d
  ELSE
    LET k == packets[i]
        again == s.unknown /\ ~s.d.parsed
    IN CASE k.pid \in s.known ->
              Scan([s EXCEPT !.d = TrackPacket(@, k, contiguous)], packets, i + 1, contiguous)
         [] k.pid = "pat" -> Scan([s EXCEPT !.d.pmt = TRUE], packets, i + 1, contiguous)
         [] k.pid = "pmt" /\ s.d.pmt ->
              Scan([s EXCEPT !.known = Tracks, !.d.ids = Tracks, !.d.parsed = TRUE,
                             !.unknown = @ /\ ~again],
                   packets, IF again THEN 1 ELSE i + 1, contiguous)
         [] OTHER -> Scan([s EXCEPT !.unknown = TRUE], packets, i + 1, contiguous)

(* append without the remuxer: at the end of the fragment the last PES     *)
(* packets are taken for whole, or kept when they are known not to be.     *)
EndOfFragment(d, t, contiguous) ==
  IF WholePes(d.pes[t]) THEN [ParsePes(d, t, TRUE, contiguous) EXCEPT !.pes[t] = NoPes] ELSE d

Demux(d, packets, contiguous) ==
  LET scanned == Scan([d |-> [d EXCEPT !.errors = <<>>], known |-> d.ids, unknown |-> FALSE],
                      packets, 1, contiguous)
  IN EndOfFragment(EndOfFragment(scanned, "video", contiguous), "audio", contiguous)
=============================================================================
