------------------------------ MODULE Transmuxer ------------------------------
(***************************************************************************)
(* From transport stream fragments to MP4 segments in the player (hls.js): *)
(* Demuxer.push tells a demuxer and a remuxer what the next fragment is to *)
(* the last one, and feeds it to them (demux/demuxer.js, demux/demuxer-    *)
(* inline.js, here without a worker and without encryption).               *)
(*                                                                         *)
(* The environment is one stream of video and audio frames, multiplexed in *)
(* packets the ways a multiplexer may, cut into fragments at any packet,   *)
(* and a player that goes on, seeks, or changes the quality level.  A      *)
(* level has the same frames with other bytes.                             *)
(***************************************************************************)
EXTENDS Mp4Remuxer

CONSTANTS
  VideoTicks,   \* what a video frame lasts
  Frames,       \* video frames of the stream; key frames are the even ones
  AudioFrames,
  Fragments,    \* how many fragments it is cut into
  Moves,        \* how often the player may do otherwise than go on
  Options       \* the streams: records of shape, known, tail, lead, gap,
                \* lag, base, accurate and break

ASSUME StreamAssumption ==
  /\ {VideoTicks, Frames, AudioFrames, Fragments} \subseteq Nat \ {0}
  /\ Moves \in Nat

Levels == 0..1
Sns == 1..Fragments
-----------------------------------------------------------------------------
(* The elementary streams.  Access units begin with a delimiter or not;    *)
(* key frames repeat the parameter sets and carry a caption.               *)
Payload(f, level) == <<128 + 32 * level + f>>
FrameUnits(f, level) ==       \* what the remuxer is to be given, by type
  IF f % 2 = 0
  THEN << <<103, 77>>, <<104, 78>>, <<6, 200 + f>>, <<101>> \o Payload(f, level)>>
  ELSE << <<65>> \o Payload(f, level)>>
AccessUnit(f, level, delimited) ==
  LET units == FrameUnits(f, level)
      first == IF delimited THEN <<0, 0, 0, 1, 9>> ELSE <<>>
      code(i) == (IF i = 1 /\ ~delimited THEN <<0>> ELSE <<>>) \o <<0, 0, 1>> \o units[i]
  IN first \o FlattenSeq([i \in DOMAIN units |-> code(i)])
AudioFrame(f, level) == <<Sync, Id, 4, 128 + 32 * level + f>>

(* The audio begins lead ticks late, and gap frames of it are missing      *)
(* before its second PES packet (no frame is cut by the border, then).     *)
AfterGap == 2
AudioTime(o, f) == o.lead + (f + IF f < AfterGap THEN 0 ELSE o.gap) * FrameTicks
VideoTime(f) == f * VideoTicks

(* PES packets: where they begin in the stream, and what frame stamps them.*)
(* "nal": every unit in one of its own; "late": the first tail bytes of a  *)
(* frame are still in the packet before; "extra": a frame's packet is cut  *)
(* in two after tail bytes.                                                *)
Delimited(o) == o.shape \notin {"plain", "nal"}
Length(o, f) == Len(AccessUnit(f, 0, Delimited(o)))
Begin(o, f) == FoldLeft(LAMBDA n, g : n + Length(o, g), 0, [i \in 1..f |-> i - 1])
Offsets(o, f) ==
  CASE o.shape = "nal" ->
         {0} \cup {i \in 2..Length(o, f) - 3 :
                     SubSeq(AccessUnit(f, 0, FALSE), i + 1, i + 3) = <<0, 0, 1>>}
    [] o.shape = "late" -> {IF f = 0 THEN 0 ELSE o.tail}
    [] o.shape = "extra" -> {0, o.tail}
    [] OTHER -> {0}
VideoStarts(o) ==
  FlattenSeq([f \in 1..Frames |->
    LET s == SetToSortSeq(Offsets(o, f - 1), <) IN [i \in DOMAIN s |-> <<Begin(o, f - 1) + s[i], f - 1>>]])
AudioStarts(o) ==             \* two frames, the borders cut bytes late
  [k \in 1..AudioFrames \div 2 |->
    IF k = 1 THEN <<0, 0>>
    ELSE <<8 * (k - 1) + o.cut, 2 * (k - 1) + (IF o.cut = 0 THEN 0 ELSE 1)>>]

VideoBytes(o, level) == FlattenSeq([f \in 1..Frames |-> AccessUnit(f - 1, level, Delimited(o))])
AudioBytes(level) == FlattenSeq([f \in 1..AudioFrames |-> AudioFrame(f - 1, level)])

(* The TS packets of a PES packet; in .of the frames they have bytes of.   *)
Packet(pid, stt, hdr, data, of) == [pid |-> pid, stt |-> stt, hdr |-> hdr, data |-> data, of |-> of]
Chunks(t, o, starts, bytes, i, size, time, frameOf) ==
  LET from == starts[i][1]
      to == IF i = Len(starts) THEN Len(bytes) ELSE starts[i + 1][1]
      hdr == Header(time + (IF t = "video" THEN o.lag ELSE 0), time,
                    IF t = "audio" \/ o.known THEN to - from ELSE 0)
  IN [k \in 1..(to - from + size - 1) \div size |->
        LET a == from + (k - 1) * size
            b == MinOf(a + size, to)
        IN Packet(t, k = 1, hdr, SubSeq(bytes, a + 1, b), {frameOf[x] : x \in a..b - 1})]

PSI == <<Packet("pat", TRUE, Header(0, 0, 0), <<>>, {}), Packet("pmt", TRUE, Header(0, 0, 0), <<>>, {})>>

(* Tables before every key frame, and an audio packet after a video frame. *)
Multiplex(o, level) ==
  LET vs == VideoStarts(o)
      vb == VideoBytes(o, level)
      as == AudioStarts(o)
      ab == AudioBytes(level)
      frameAt == [x \in 0..Len(vb) - 1 |-> CHOOSE f \in 0..Frames - 1 : Begin(o, f) <= x /\ x < Begin(o, f + 1)]
      video(f) == FlattenSeq([i \in DOMAIN vs |->
                    IF vs[i][2] = f THEN Chunks("video", o, vs, vb, i, 13, VideoTime(f), frameAt) ELSE <<>>])
      audio(k) == IF k > Len(as) THEN <<>>
                  ELSE Chunks("audio", o, as, ab, k, 6, AudioTime(o, as[k][2]), [x \in 0..Len(ab) - 1 |-> x \div 4])
  IN FlattenSeq([i \in 1..Frames |-> (IF i % 2 = 1 THEN PSI ELSE <<>>) \o video(i - 1) \o audio(i)])
Mux == [o \in Options, level \in Levels |-> Multiplex(o, level)]
FramePackets ==
  [o \in Options, f \in 0..Frames - 1 |->
     {i \in DOMAIN Mux[o, 0] : Mux[o, 0][i].pid = "video" /\ f \in Mux[o, 0][i].of}]

Signed(t) == IF t % Wrap >= Wrap \div 2 THEN (t % Wrap) - Wrap ELSE t % Wrap
-----------------------------------------------------------------------------
VARIABLES
  opt,      \* the stream
  cuts,     \* after which packets it is cut into fragments
  last,     \* Demuxer.frag: the last fragment pushed
  m,        \* the demuxer, the remuxer, and the events of the last push
  startDTS, \* where a fragment of a level was found to begin, or NaN
  moves,
  past      \* what the player has been given so far

vars == <<opt, cuts, last, m, startDTS, moves, past>>

Frag(sn, level) == [sn |-> sn, level |-> level, cc |-> IF opt.break # 0 /\ sn >= opt.break THEN 1 ELSE 0]
NoFrag == [sn |-> -1, level |-> -1, cc |-> -1]

FirstPacket(sn) == IF sn = 1 THEN 1 ELSE cuts[sn - 1] + 1
LastPacket(sn) == IF sn = Fragments THEN Len(Mux[opt, 0]) ELSE cuts[sn]
Base(cc) == IF cc = 0 THEN opt.base ELSE 3 * opt.base + 7
Payloads(frag) ==
  LET p == Mux[opt, frag.level]
      raw(t) == Signed(Base(frag.cc) + t)
  IN [i \in 1..LastPacket(frag.sn) - FirstPacket(frag.sn) + 1 |->
       [p[FirstPacket(frag.sn) + i - 1] EXCEPT !.hdr = Header(raw(@.pts), raw(@.dts), @.len)]]

(* Where the playlist says that a fragment begins: at its first whole      *)
(* video frame.                                                            *)
StartOf(sn) ==
  LET p == Mux[opt, 0]
      starts == {p[i].hdr.dts : i \in {j \in FirstPacket(sn)..Len(p) : p[j].pid = "video" /\ p[j].stt}}
  IN IF starts = {} THEN VideoTime(Frames) ELSE Least(starts)

TimeOffset(frag, start) ==
  LET known == startDTS[frag.level][frag.sn]
  IN IF known # NaN THEN known ELSE start

(* updateFragPTSDTS: the first of the times audio and video begin at.      *)
Found(frag, out) ==
  LET times == {out[i].startDTS : i \in {j \in DOMAIN out : out[j].ev = "DATA"}}
                 \cup {startDTS[frag.level][frag.sn]}
  IN IF times \ {NaN} = {} THEN NaN ELSE Least(times \ {NaN})

Discontinuity(frag) == last = NoFrag \/ frag.cc # last.cc
TrackSwitch(frag) == last = NoFrag \/ frag.level # last.level
Contiguous(frag) == ~TrackSwitch(frag) /\ frag.sn = last.sn + 1

(* The init segment outlives a new level.                                  *)
KeepInit(frag) ==
  LET anew == Discontinuity(frag) \/ TrackSwitch(frag)
  IN [d |-> IF anew THEN Fresh ELSE m.d, r |-> m.r, out |-> <<>>]

(* pushDecrypted: what a new level and a new clock reset.                  *)
Reset(frag) ==
  LET anew == Discontinuity(frag) \/ TrackSwitch(frag)
      r == IF Discontinuity(frag) THEN [m.r EXCEPT !.initPTS = NaN, !.initDTS = NaN] ELSE m.r
  IN [d |-> IF anew THEN Fresh ELSE m.d,
      r |-> IF anew THEN [r EXCEPT !.is = FALSE] ELSE r, out |-> <<>>]

(* What the properties know of the past: the tracks announced since the    *)
(* last reset, the fragments since the last one that did not go on, the    *)
(* frames handed over from them, and in which of these known weaknesses of *)
(* the code the player has run since:                                      *)
(*   stale   something half demuxed was there before a fragment that does  *)
(*           not go on: nothing removes it                                 *)
(*   uneven  a fragment goes on after one frame, or one that lost frames   *)
(*           before its last one: the end of the last one was a guess      *)
(*   mute, blind  a fragment goes on, but no audio or video was there yet  *)
(*           to go on from; the time audio then ends at outlives a seek    *)
(*   kept    all the audio was dropped and is still in the track           *)
(*   filled  silence was put before the first frame, which was also made   *)
(*           longer                                                        *)
(*   misdated  an earlier push has the fragment begin a frame or more from *)
(*           where it does (startDTS)                                      *)
(*   jump    audio is missing for so long that the gap is not filled but   *)
(*           closed                                                        *)
Slices(e) == SelectSeq([i \in DOMAIN e.samples |-> Last(e.samples[i].units)], LAMBDA u : Len(u) > 1)
IndexOf(payload) == (payload - 128) % 32
FrameOf(unit) == IndexOf(unit[2])
EvenEnd(e) ==
  LET s == Slices(e)
      n == Len(s)
  IN n > 1 /\ n = Len(e.samples) /\ FrameOf(s[n]) = FrameOf(s[n - 1]) + 1
Given(out) ==
  FlattenSeq([i \in DOMAIN out |->
    IF out[i].ev = "DATA" /\ out[i].tracks = {"video"} THEN Slices(out[i]) ELSE <<>>])
Segments(t) == {i \in DOMAIN m.out : m.out[i].ev = "DATA" /\ m.out[i].tracks = {t}}
HeldBack(d) ==
  \/ \E t \in Tracks : d.pes[t] # NoPes
  \/ d.sample # NoSample \/ d.nalu = -1
  \/ \E s \in {d.over, d.samples, d.frames, d.text} : s # <<>>
TooLong(fed, done, offset, on, accurate) ==
  \E contiguous \in {AudioContiguous([done EXCEPT !.d = fed.d, !.r.nextAudioPts = fed.r.nextAudioPts],
                                     offset, on, accurate)} :
    \E next \in {IF contiguous THEN fed.r.nextAudioPts ELSE offset} :
      \E s \in {PlacedAudio([done EXCEPT !.d = fed.d], next)} :
        \E i \in DOMAIN s :
          LET gap == s[i].pts - (IF i = 1 THEN next ELSE s[i - 1].pts + FrameTicks)
          IN /\ accurate \/ (contiguous /\ i = 1)
             /\ next # NaN /\ gap > 0 /\ ~Fillable(gap + FrameTicks)
Flaws(b, fed, done, frag, start, offset, accurate) ==
  (IF ~Contiguous(frag) /\ HeldBack(b.d) THEN {"stale"} ELSE {})
    \cup (IF Contiguous(frag) /\ \E e \in Segments("video") : ~EvenEnd(m.out[e])
          THEN {"uneven"} ELSE {})
    \cup (IF Contiguous(frag) /\ "audio" \notin past.has THEN {"mute"} ELSE {})
    \cup (IF Contiguous(frag) /\ "video" \notin past.has THEN {"blind"} ELSE {})
    \cup (IF b.d.frames # <<>> THEN {"kept"} ELSE {})
    \cup (IF ~accurate /\ \E i \in DOMAIN done.out : done.out[i].ev = "DATA"
             /\ done.out[i].tracks = {"audio"} /\ done.out[i].samples[1].unit = Silent
          THEN {"filled"} ELSE {})
    \cup (IF Abs(offset - start) >= FrameTicks THEN {"misdated"} ELSE {})
    \cup (IF TooLong(fed, done, offset, Contiguous(frag), accurate) THEN {"jump"} ELSE {})

Tracked(out, ev) == UNION {out[i].tracks : i \in {j \in DOMAIN out : out[j].ev = ev}}
Push(frag, accurate) ==
  \E begun \in {Reset(frag)}, start \in {StartOf(frag.sn)} :
  \E fed \in {[begun EXCEPT !.d = Demux(@, Payloads(frag), Contiguous(frag))]},
     offset \in {TimeOffset(frag, start)} :
    /\ m' = Remux(fed, offset, Contiguous(frag), accurate)
    /\ last' = frag
    /\ startDTS' = [startDTS EXCEPT ![frag.level][frag.sn] = Found(frag, m'.out)]
    /\ \E on \in {Contiguous(frag) /\ ~Discontinuity(frag)} :
         past' = [from |-> IF on THEN past.from ELSE frag.sn,
                  given |-> (IF on THEN past.given ELSE <<>>) \o Given(m'.out),
                  has |-> (IF on THEN past.has ELSE {}) \cup Tracked(m'.out, "DATA"),
                  flaws |-> (IF on THEN past.flaws ELSE past.flaws \cap {"mute"})
                             \cup Flaws(begun, fed, m', frag, start, offset, accurate),
                  inits |-> IF Discontinuity(frag) \/ TrackSwitch(frag) THEN {}
                            ELSE past.inits \cup Tracked(m.out, "INIT_SEGMENT")]
    /\ UNCHANGED <<opt, cuts>>

Init ==
  /\ opt \in Options
  /\ cuts \in {c \in [1..Fragments - 1 -> 1..Len(Mux[opt, 0]) - 1] :
               \A i, j \in 1..Fragments - 1 : i < j => c[i] < c[j]}
  /\ last = NoFrag
  /\ m = [d |-> Fresh, r |-> NewRemuxer, out |-> <<>>]
  /\ startDTS = [l \in Levels |-> [sn \in Sns |-> NaN]]
  /\ moves = 0
  /\ past = [from |-> 0, given |-> <<>>, flaws |-> {}, has |-> {}, inits |-> {}]

Start ==
  /\ last = NoFrag
  /\ Push(Frag(1, 0), opt.accurate) /\ UNCHANGED moves

GoOn ==
  /\ last # NoFrag /\ last.sn < Fragments
  /\ Push(Frag(last.sn + 1, last.level), opt.accurate) /\ UNCHANGED moves

(* A seek pushes another fragment of the level, with media.seeking set.    *)
Seek ==
  /\ last # NoFrag /\ moves < Moves
  /\ \E sn \in Sns \ {last.sn + 1} : Push(Frag(sn, last.level), FALSE)
  /\ moves' = moves + 1

(* Another quality: the next fragment, or the last one again.              *)
SwitchLevel ==
  /\ last # NoFrag /\ moves < Moves
  /\ \E sn \in Sns \cap {last.sn, last.sn + 1} : Push(Frag(sn, 1 - last.level), opt.accurate)
  /\ moves' = moves + 1

Next == Start \/ GoOn \/ Seek \/ SwitchLevel

Spec == Init /\ [][Next]_vars
-----------------------------------------------------------------------------
Bytes == 0..255

(* The shape of the state: a stream of tables lists both tracks or none,   *)
(* the automaton of the start codes is in one of its five states.          *)
TypeOK ==
  /\ m.d.ids \in {{}, Tracks} /\ m.d.parsed = (m.d.ids # {})
  /\ m.d.nalu \in -1..3
  /\ {m.d.pes[t].data : t \in Tracks} \subseteq Seq(Bytes)
  /\ m.r.is \in BOOLEAN
  /\ {m.r.initPTS, m.r.initDTS, m.r.nextAvcDts, m.r.nextAudioPts} \subseteq Int
  /\ startDTS \in [Levels -> [Sns -> Int]]
  /\ last = NoFrag \/ last \in [sn : Sns, level : Levels, cc : 0..1]
-----------------------------------------------------------------------------
(* A frame is torn when the end of a fragment cuts a PES packet of unknown *)
(* length it has bytes in, or falls between its PES packets.               *)
FragmentsOf(f) ==
  {sn \in Sns : FramePackets[opt, f] \cap FirstPacket(sn)..LastPacket(sn) # {}}
Spread(f) == Cardinality(FragmentsOf(f)) > 1
Torn(f) ==
  \/ Spread(f) /\ (~opt.known \/ opt.shape = "extra")
  \/ opt.shape = "late" /\ ~opt.known /\ f > 0 /\ Spread(f - 1)
NoZeros(u) == SubSeq(u, 1, CHOOSE n \in 1..Len(u) : u[n] # 0 /\ \A k \in n + 1..Len(u) : u[k] = 0)

(* The first fragment of those that go on which has been read: without the *)
(* tables of the program, or any video, it was not.                        *)
FirstRead == IF "blind" \in past.flaws THEN last.sn ELSE past.from

(* What the remuxer gives the media element for a frame is the bytes the   *)
(* multiplexer was given, unit by unit, however they were spread over PES  *)
(* packets, TS packets and fragments, start codes cut in two included: no  *)
(* byte lost, doubled, or taken from another frame or quality level.  The  *)
(* last unit a fragment has may keep zeros of the next start code; the     *)
(* units before the slice are missing when the frame began in what was not *)
(* read, and where nothing delimits the frames they are read but not put   *)
(* into the sample, which the slice begins.                                *)
(* (_parseAVCNALu and its state between PES packets.)                      *)
UnitsWhole ==
  /\ TypeOK
  /\ "stale" \notin past.flaws =>
       \A e \in Segments("video") : \A i \in DOMAIN m.out[e].samples :
         LET s == m.out[e].samples
             units == IF i = Len(s) \/ "blind" \in past.flaws THEN OnLast(s[i].units, NoZeros)
                      ELSE s[i].units
             f == FrameOf(Last(units))
         IN IF Len(Last(units)) < 2 THEN \E g \in 0..Frames - 1 : Torn(g)
            ELSE \/ Torn(f) \/ units = FrameUnits(f, last.level)
                 \/ /\ IsSuffix(units, FrameUnits(f, last.level))
                    /\ ~Delimited(opt) \/ Least(FragmentsOf(f)) < FirstRead

Shown == [i \in DOMAIN past.given |-> FrameOf(past.given[i])]
AllOf(f) == FragmentsOf(f) \subseteq past.from..last.sn
Led(f) == \E g \in ToSet(Shown) : g <= f /\ g % 2 = 0 /\ AllOf(g)
Waits == m.d.pes["video"] # NoPes \/ m.d.sample # NoSample

(* Over fragments that go on from one another no frame is handed over      *)
(* twice or out of order, and none whose key frame was handed over is      *)
(* missing, unless it is still waiting for its end.  (pushAccesUnit, the   *)
(* partial PES packets append keeps for the next fragment.)                *)
FramesInOrder ==
  past.flaws \cap {"stale", "blind"} = {} =>
    /\ \A i, j \in DOMAIN Shown : i < j => Shown[i] < Shown[j]
    /\ \A f \in 0..Frames - 1 \ ToSet(Shown) :
         \/ Torn(f) \/ ~AllOf(f)
         \/ Waits /\ \A g \in ToSet(Shown) : g < f
         \/ ~Led(f) /\ (f % 2 = 1 \/ m.d.ids = {} \/ FragmentsOf(f) # {last.sn})

(* What the clock of this fragment is ahead of the time line, and when     *)
(* sample i of an MP4 segment decodes there.                               *)
K == PTSNormalize(Signed(Base(last.cc)) - m.r.initDTS, 0)
At(e, i) == FoldLeft(LAMBDA n, s : n + s.duration, m.out[e].base, SubSeq(m.out[e].samples, 1, i - 1))

(* Adding up the durations in the MP4 segment, every video frame is shown  *)
(* when its time stamp says, to within the rounding to milliseconds, on    *)
(* both sides of a turn of the clock.  (remuxVideo, _PTSNormalize.)        *)
VideoOnTime ==
  past.flaws \cap {"stale", "uneven", "blind", "misdated"} = {} =>
    \A e \in Segments("video") : \A i \in DOMAIN m.out[e].samples :
      LET s == m.out[e].samples[i]
          due == MaxOf(0, K + opt.lag + VideoTime(FrameOf(Last(s.units))))
      IN Len(Last(s.units)) > 1 => Abs(At(e, i) + s.cts - due) <= Frames * (VideoTicks \div 90)

(* And every audio frame less than a frame from its time, with the silence *)
(* put into gaps and the overlaps dropped, so that sound and picture stay  *)
(* together; what would begin before time 0 is shifted to it as a whole.   *)
(* Behind a gap of MAX_SILENT_FRAME_DURATION it is not so (jump).          *)
(* (remuxAudio, _parseAACPES with frames across PES packets.)              *)
AudioOnTime ==
  past.flaws \cap {"stale", "mute", "filled", "kept", "jump", "misdated"} = {} =>
    \A e \in Segments("audio") :
      LET s == m.out[e].samples
          heard == {i \in DOMAIN s : s[i].unit # Silent}
          due(i) == K + AudioTime(opt, IndexOf(s[i].unit[1]))
          early == IF heard = {} THEN 0 ELSE MinOf(0, due(Least(heard)))
      IN \A i \in heard : Abs(At(e, i) - (due(i) - early)) < FrameTicks

(* Nothing announces video in a fragment without audio samples when the    *)
(* init segment of the fragments before was one for audio only.            *)
Headless(t) ==
  /\ t = "video"
  /\ \/ m.d.sps = <<>> \/ m.d.pps = <<>>
     \/ past.inits = {"audio"} /\ \A a \in Segments("audio"), v \in Segments("video") : v < a

(* No data before the init segment that describes its track, after every   *)
(* reset again, and none at a time that was computed without one.  Video   *)
(* whose parameter sets never came is the exception.  (remux, the time     *)
(* scale as the mark of an announced track.)                               *)
InitFirst ==
  \A t \in Tracks : \A e \in Segments(t) :
    \/ Headless(t)
    \/ /\ t \in past.inits \cup Tracked(SubSeq(m.out, 1, e - 1), "INIT_SEGMENT")
       /\ m.out[e].pts # NaN \/ (t = "audio" /\ "mute" \in past.flaws)

(* A caption is shown with its frame, to within a turn of the clock (which *)
(* remuxText leaves out) and the lag between decoding and presentation.    *)
CaptionsOnTime ==
  past.flaws \cap {"stale", "misdated"} = {} /\ m.d.scale["video"] =>
    \A e \in {i \in DOMAIN m.out : m.out[i].ev = "TEXT"} : \A i \in DOMAIN m.out[e].samples :
      LET s == m.out[e].samples[i]
      IN Abs(PTSNormalize(s.pts - K - VideoTime(s.cc - 200), 0)) <= opt.lag
(* Picture, sound and captions are shown together, at their times.         *)
OnTime == VideoOnTime /\ AudioOnTime /\ CaptionsOnTime
=============================================================================
